---- MODULE Spec2Model ----
(***************************************************************************)
(* Model of the tag codec and page-transport layer of AnycubicNFCTaggerQT5 *)
(* (nfc/pcsc.py, ui/nfc_fields.py).                                        *)
(*                                                                         *)
(* A behaviour is one scenario on one connected tag: the caller invokes an *)
(* operation (op goes from "idle" to the operation's name) and, for the    *)
(* round trips, reads the tag back afterwards.  Bytes are 0..255, a bytes  *)
(* object is a sequence of bytes, a str is a sequence of code points, a    *)
(* dict is a function on its key set.                                      *)
(***************************************************************************)
EXTENDS Integers, Sequences, FiniteSets, TLC

VARIABLES
    op,     \* the operation that has run ("idle" before the call)
    args,   \* the inputs of that call
    ret,    \* what the call returned: [raised |-> BOOLEAN, value |-> ...]
    tx,     \* the exchanges on conn.transmit, in order: [apdu, rsp]
    prev,   \* the call before that, [op, args, ret, tx], <<>> if none (in the
            \* scenarios of the page editor: how many calls there were before)
    mem,    \* the tag's memory: page -> 4 bytes (pages never written read as 0)
    fault,  \* the pages of this tag whose exchanges fail, and how
    ua,     \* the user-area descriptor the policy helpers work with
    rows,   \* the rows of the page editor: page -> [edB, edAscii, chkApply]
    win     \* the main window: status flags, icon, signals not yet delivered

callVars == <<op, args, ret, tx, prev>>
tagVars == <<mem, fault, ua>>
vars == <<op, args, ret, tx, prev, mem, fault, ua, rows, win>>

----------------------------------------------------------------------------
(* Bounds of the model *)

\* longest payload handed to write_raw_pages, in bytes
MaxPayloadLen == 9

\* how many pages of a tag may answer with a failure in one scenario
MaxFaults == 2

\* longest SKU handed to the codec, in characters (max_len of the SKU is 32)
MaxSkuLen == 34

\* longest buffer handed to find_ndef_tlv, in bytes
MaxTlvLen == 7

\* longest enumerated NDEF message handed to decode_ndef_records
MaxNdefLen == 5

\* most calls and user edits in a row on the page editor
MaxEditorOps == 3

\* most entries of an enumerated filament catalog
MaxCatalogLen == 3

\* most presenceChanged signals that wait for the GUI thread
MaxPending == 2

----------------------------------------------------------------------------
(* Python helpers *)

Min(a, b) == IF a <= b THEN a ELSE b

\* range(a, b) as the set of its members
Range(a, b) == {i \in a..(b - 1) : TRUE}

\* b[lo:hi] of Python (0-based, hi exclusive, clipped to the sequence)
Slice(b, lo, hi) == SubSeq(b, lo + 1, Min(hi, Len(b)))

\* n zero bytes: b"\x00" * n
Zeros(n) == [i \in 1..n |-> 0]

\* d[k] = v on a dict
DictSet(d, k, v) == (k :> v) @@ d

\* e, with v evaluated first: an operator's argument is otherwise evaluated only
\* where it is first used, which nests the iterations of a loop in one another.
\* The result of a call that is used more than once is bound as the argument of
\* a local operator (LET after(r) == ... IN after(call)), which evaluates it once.
Strict(v, e) == IF v = v THEN e ELSE e

\* the one element of a set {F(x) : x \in {v}}: F(v) with v evaluated once
\* whatever F does with it, also where ENABLED is evaluated
TheOne(S) == CHOOSE y \in S : TRUE

EmptyDict == <<>>

\* page & 0xFF for the page operand of an APDU
LowByte(page) == page % 256

----------------------------------------------------------------------------
(* The connection: conn.transmit on a Type-2 tag *)

\* what one transmit can end with: a status word, or an exception of the stack
Outcomes ==
    { [exc |-> FALSE, sw1 |-> \H90, sw2 |-> \H00],
      [exc |-> FALSE, sw1 |-> \H90, sw2 |-> \H01],
      [exc |-> FALSE, sw1 |-> \H63, sw2 |-> \H00],
      [exc |-> TRUE,  sw1 |-> 0,    sw2 |-> 0] }

Acknowledged == [exc |-> FALSE, sw1 |-> \H90, sw2 |-> \H00]

\* the exchanges that may go wrong on a tag (-1 is the UID probe, the others are
\* pages); all others answer 90 00
FaultPages == {-1, \H05, \H06, \H0A, \H14, \H28}

\* the tags with at most n failing pages
FaultMapsUpTo(n) ==
    UNION { [S -> Outcomes \ {Acknowledged}] :
            S \in {T \in SUBSET FaultPages : Cardinality(T) <= n} }

FaultMaps == FaultMapsUpTo(MaxFaults)

OutcomeAt(f, key) == IF key \in DOMAIN f THEN f[key] ELSE Acknowledged

\* the 4 bytes of a page of the tag
PageAt(m, page) == IF page \in DOMAIN m THEN m[page] ELSE Zeros(4)

RECURSIVE MemBytes(_, _, _)
\* the bytes of n consecutive pages from page
MemBytes(m, page, n) == IF n <= 0 THEN <<>> ELSE PageAt(m, page) \o MemBytes(m, page + 1, n - 1)

\* A connection value threaded through a call: the tag's memory, the exchanges
\* so far and the outcome each page's exchanges end with.
Conn(m, f) == [mem |-> m, tx |-> <<>>, fault |-> f]

IsWriteApdu(apdu) == Len(apdu) >= 5 /\ apdu[1] = \HFF /\ apdu[2] = \HD6

IsReadApdu(apdu) == Len(apdu) = 5 /\ apdu[1] = \HFF /\ apdu[2] = \HB0

\* GET DATA (UID): FF CA 00 00 00
IsUidApdu(apdu) == Len(apdu) = 5 /\ apdu[1] = \HFF /\ apdu[2] = \HCA

ApduPage(apdu) == apdu[4]

\* what a fault map is keyed by: the page of a page exchange, -1 for the UID probe
FaultKey(apdu) == IF IsUidApdu(apdu) THEN -1 ELSE ApduPage(apdu)

\* the tag's serial number and ATR
TagUid == <<\H04, \HA1, \HB2, \HC3, \HD4, \HE5, \HF6>>

TagAtr == <<\H3B, \H8F, \H80, \H01>>

\* conn.transmit(apdu): UPDATE BINARY stores its data when acknowledged,
\* READ BINARY answers the bytes asked for when acknowledged, GET DATA the UID.
Transmit(conn, apdu) ==
    LET o == OutcomeAt(conn.fault, FaultKey(apdu))
        good == ~o.exc /\ o = Acknowledged
        data == IF good /\ IsReadApdu(apdu)
                THEN MemBytes(conn.mem, ApduPage(apdu), apdu[5] \div 4)
                ELSE IF good /\ IsUidApdu(apdu) THEN TagUid
                ELSE <<>>
        m2 == IF good /\ IsWriteApdu(apdu)
              THEN DictSet(conn.mem, ApduPage(apdu), SubSeq(apdu, 6, 9))
              ELSE conn.mem
    IN [conn |-> [conn EXCEPT !.mem = m2,
                              !.tx = Append(@, [apdu |-> apdu, rsp |-> o])],
        raised |-> o.exc, data |-> data, sw1 |-> o.sw1, sw2 |-> o.sw2]

\* _tx(conn, apdu)
_tx(conn, apdu) == Transmit(conn, apdu)

----------------------------------------------------------------------------
(* User-area policy and bulk writes (pcsc.py) *)

\* _cmd_write_single_page(page, data4)
_cmd_write_single_page(page, data4) ==
    LET d == Slice(IF Len(data4) = 0 THEN Zeros(4) ELSE data4, 0, 4)
    IN <<\HFF, \HD6, \H00, LowByte(page), \H04>> \o d \o Zeros(4 - Len(d))

\* detect_user_area(conn)
detect_user_area ==
    [user_start |-> \H04, user_end |-> \H29,
     protected |-> {\H00, \H01, \H02, \H03, \H2A, \H2B, \H2C, \H2D}]

\* write_raw_pages_iter without the user-area range test: only the
\* skip_protected test stands between a call and the pages outside the range
write_raw_pages_iter_norange(st, d, start_page, buf, skip_protected, i) ==
    LET p == start_page + i
        s == Slice(buf, i * 4, (i + 1) * 4)
        slice4 == s \o Zeros(4 - Len(s))
    IN IF skip_protected /\ p \in d.protected
       THEN [st EXCEPT !.result = DictSet(@, p, FALSE)]
       ELSE LET t == _tx(st.conn, _cmd_write_single_page(p, slice4))
            IN [conn |-> t.conn,
                result |-> DictSet(st.result, p, IF t.raised THEN FALSE ELSE t.sw1 = \H90)]

\* one iteration of the loop of write_raw_pages; st = [conn, result]
write_raw_pages_iter(st, d, start_page, buf, skip_protected, i) ==
    LET p == start_page + i
        s == Slice(buf, i * 4, (i + 1) * 4)
        slice4 == s \o Zeros(4 - Len(s))
    IN IF ~(d.user_start <= p /\ p < d.user_end)
       THEN [st EXCEPT !.result = DictSet(@, p, FALSE)]
       ELSE IF skip_protected /\ p \in d.protected
       THEN [st EXCEPT !.result = DictSet(@, p, FALSE)]
       ELSE LET t == _tx(st.conn, _cmd_write_single_page(p, slice4))
            IN [conn |-> t.conn,
                result |-> DictSet(st.result, p, IF t.raised THEN FALSE ELSE t.sw1 = \H90)]

RECURSIVE write_raw_pages_loop(_, _, _, _, _, _, _)
write_raw_pages_loop(st, d, start_page, buf, skip_protected, i, pages) ==
    IF i >= pages THEN st
    ELSE LET st2 == write_raw_pages_iter(st, d, start_page, buf, skip_protected, i)
         IN Strict(st2, write_raw_pages_loop(st2, d, start_page, buf, skip_protected, i + 1, pages))

\* write_raw_pages(conn, start_page, data_bytes, skip_protected); d is what
\* detect_user_area returned
write_raw_pages(conn, d, start_page, data_bytes, skip_protected) ==
    IF Len(data_bytes) = 0 THEN [conn |-> conn, result |-> EmptyDict]
    ELSE write_raw_pages_loop([conn |-> conn, result |-> EmptyDict], d, start_page,
                              data_bytes, skip_protected, 0, (Len(data_bytes) + 3) \div 4)

\* one iteration of the loop of clear_user_area
clear_user_area_iter(st, p) ==
    LET t == _tx(st.conn, _cmd_write_single_page(p, Zeros(4)))
    IN [conn |-> t.conn,
        result |-> DictSet(st.result, p, IF t.raised THEN FALSE ELSE t.sw1 = \H90)]

RECURSIVE clear_user_area_loop(_, _, _)
clear_user_area_loop(st, p, user_end) ==
    IF p >= user_end THEN st
    ELSE LET st2 == clear_user_area_iter(st, p)
         IN Strict(st2, clear_user_area_loop(st2, p + 1, user_end))

\* clear_user_area(conn); d is what detect_user_area returned
clear_user_area(conn, d) ==
    clear_user_area_loop([conn |-> conn, result |-> EmptyDict], d.user_start, d.user_end)

----------------------------------------------------------------------------
(* Single-page transport (pcsc.py) *)

\* read_page_ultralight(conn, page): value is the 4 bytes, none says None
read_page_ultralight(conn, page) ==
    LET answer(t) ==
            IF t.raised THEN [conn |-> t.conn, none |-> TRUE, value |-> <<>>]
            ELSE IF t.sw1 = \H90 /\ t.sw2 = \H00
                 THEN [conn |-> t.conn, none |-> FALSE, value |-> t.data]
                 ELSE [conn |-> t.conn, none |-> TRUE, value |-> <<>>]
    IN answer(Transmit(conn, <<\HFF, \HB0, \H00, LowByte(page), \H04>>))

\* write_page_ultralight(conn, page, data4): (ok, sw1, sw2), or raises
write_page_ultralight(conn, page, data4) ==
    IF Len(data4) # 4
    THEN [conn |-> conn, raised |-> TRUE, ok |-> FALSE, sw1 |-> 0, sw2 |-> 0]
    ELSE LET answer(t) ==
                 [conn |-> t.conn, raised |-> t.raised,
                  ok |-> ~t.raised /\ t.sw1 = \H90 /\ t.sw2 = \H00,
                  sw1 |-> t.sw1, sw2 |-> t.sw2]
         IN answer(Transmit(conn, <<\HFF, \HD6, \H00, LowByte(page), \H04>> \o data4))

\* _cmd_read_page_group(start_page)
_cmd_read_page_group(start_page) == <<\HFF, \HB0, \H00, LowByte(start_page), \H10>>

\* read_single_page with the group read addressed to the page itself
read_single_page_nofloor(conn, page) ==
    LET off == (page % 4) * 4
        pad(chunk) == chunk \o Zeros(4 - Len(chunk))
        answer(t) ==
            IF t.raised \/ t.sw1 # \H90
            THEN [conn |-> t.conn, raised |-> TRUE, value |-> <<>>]
            ELSE [conn |-> t.conn, raised |-> FALSE, value |-> pad(Slice(t.data, off, off + 4))]
    IN answer(_tx(conn, _cmd_read_page_group(page)))

\* read_single_page(conn, page): the 4 bytes, or raises
read_single_page(conn, page) ==
    LET base == page - (page % 4)
        off == (page % 4) * 4
        pad(chunk) == chunk \o Zeros(4 - Len(chunk))
        answer(t) ==
            IF t.raised \/ t.sw1 # \H90
            THEN [conn |-> t.conn, raised |-> TRUE, value |-> <<>>]
            ELSE [conn |-> t.conn, raised |-> FALSE, value |-> pad(Slice(t.data, off, off + 4))]
    IN answer(_tx(conn, _cmd_read_page_group(base)))

----------------------------------------------------------------------------
(* str and bytes conversions of Python *)

\* text.encode("ascii", errors="ignore"): code points above 127 are dropped
AsciiEncodeIgnore(text) == SelectSeq(text, LAMBDA c : c < 128)

\* data.decode("ascii", errors="ignore"): bytes above 127 are dropped
AsciiDecodeIgnore(data) == SelectSeq(data, LAMBDA c : c < 128)

RECURSIVE IndexOfZero(_, _)
\* index of the first zero byte of data at or after i, Len(data) + 1 if none
IndexOfZero(data, i) ==
    IF i > Len(data) THEN i ELSE IF data[i] = 0 THEN i ELSE IndexOfZero(data, i + 1)

\* data.split(b"\x00", 1)[0]
UpToZero(data) == SubSeq(data, 1, IndexOfZero(data, 1) - 1)

\* 0x00 in data
HasZero(data) == \E i \in 1..Len(data) : data[i] = 0

\* the whitespace of the strings handled here
Whitespace == {32}

RECURSIVE LStrip(_, _)
\* s with its leading characters that are in chars removed
LStrip(s, chars) == IF s # <<>> /\ Head(s) \in chars THEN LStrip(Tail(s), chars) ELSE s

RECURSIVE RStrip(_, _)
RStrip(s, chars) ==
    IF s # <<>> /\ s[Len(s)] \in chars THEN RStrip(SubSeq(s, 1, Len(s) - 1), chars) ELSE s

\* s.strip()
PyStrip(s) == RStrip(LStrip(s, Whitespace), Whitespace)

\* s.lstrip("#")
LStripHash(s) == LStrip(s, {35})

\* s.upper() on ASCII
PyUpper(s) == [i \in 1..Len(s) |-> IF s[i] >= 97 /\ s[i] <= 122 THEN s[i] - 32 ELSE s[i]]

IsHexDigit(c) == (c >= 48 /\ c <= 57) \/ (c >= 65 /\ c <= 70) \/ (c >= 97 /\ c <= 102)

HexDigitValue(c) == IF c <= 57 THEN c - 48 ELSE IF c <= 70 THEN c - 55 ELSE c - 87

RECURSIVE HexValue(_)
HexValue(s) == IF s = <<>> THEN 0 ELSE 16 * HexValue(SubSeq(s, 1, Len(s) - 1)) + HexDigitValue(s[Len(s)])

\* int(s, 16): surrounding whitespace is ignored, then every character must be
\* a hex digit, else ValueError (ok = FALSE).  Signs, underscores and a 0x
\* prefix, which int() also accepts, occur in none of the inputs.
PyIntHex(s) ==
    LET t == PyStrip(s)
    IN IF t # <<>> /\ \A i \in 1..Len(t) : IsHexDigit(t[i])
       THEN [ok |-> TRUE, value |-> HexValue(t)]
       ELSE [ok |-> FALSE, value |-> 0]

HexDigitChar(n) == IF n < 10 THEN 48 + n ELSE 55 + n

\* f"{v:02X}"
Format02X(v) == <<HexDigitChar(v \div 16), HexDigitChar(v % 16)>>

\* reversed(b)
Reversed(b) == [i \in 1..Len(b) |-> b[Len(b) + 1 - i]]

----------------------------------------------------------------------------
(* Anycubic field codec on the tag (pcsc.py) *)

None == [none |-> TRUE, value |-> <<>>]

Some(v) == [none |-> FALSE, value |-> v]

\* None where the value would be an integer
NoValue == [none |-> TRUE, value |-> 0]

RECURSIVE write_ascii_z_nobreak(_, _, _, _)
\* the for loop of write_ascii_z without the break after a failed page
write_ascii_z_nobreak(conn, start_page, raw, i) ==
    IF i >= Len(raw) THEN [conn |-> conn, raised |-> FALSE, value |-> TRUE]
    ELSE LET c == Slice(raw, i, i + 4)
             chunk == c \o Zeros(4 - Len(c))
             rest(w, r) == [r EXCEPT !.value = w.ok /\ r.value]
             after(w) ==
                 IF w.raised THEN [conn |-> w.conn, raised |-> TRUE, value |-> FALSE]
                 ELSE rest(w, write_ascii_z_nobreak(w.conn, start_page, raw, i + 4))
         IN after(write_page_ultralight(conn, start_page + (i \div 4), chunk))

RECURSIVE write_ascii_z_loop(_, _, _, _)
\* the for loop of write_ascii_z over i = 0, 4, 8, ...
write_ascii_z_loop(conn, start_page, raw, i) ==
    IF i >= Len(raw) THEN [conn |-> conn, raised |-> FALSE, value |-> TRUE]
    ELSE LET c == Slice(raw, i, i + 4)
             chunk == c \o Zeros(4 - Len(c))
             after(w) ==
                 IF w.raised THEN [conn |-> w.conn, raised |-> TRUE, value |-> FALSE]
                 ELSE IF ~w.ok THEN [conn |-> w.conn, raised |-> FALSE, value |-> FALSE]
                 ELSE write_ascii_z_loop(w.conn, start_page, raw, i + 4)
         IN after(write_page_ultralight(conn, start_page + (i \div 4), chunk))

\* write_ascii_z(conn, start_page, text, max_len)
write_ascii_z(conn, start_page, text, max_len) ==
    write_ascii_z_loop(conn, start_page, Slice(AsciiEncodeIgnore(text), 0, max_len) \o <<0>>, 0)

\* write_color_rgba_hex with the page written in the order R, G, B, A
write_color_rgba_hex_rgba(conn, page, color_hex) ==
    LET s0 == LStripHash(PyStrip(color_hex))
        s == IF Len(s0) = 6 THEN s0 \o <<70, 70>> ELSE s0
        r == PyIntHex(Slice(s, 0, 2))
        g == PyIntHex(Slice(s, 2, 4))
        b == PyIntHex(Slice(s, 4, 6))
        a == PyIntHex(Slice(s, 6, 8))
    IN IF Len(s0) \notin {6, 8} THEN [conn |-> conn, raised |-> FALSE, value |-> FALSE]
       ELSE IF ~(r.ok /\ g.ok /\ b.ok /\ a.ok)
       THEN [conn |-> conn, raised |-> TRUE, value |-> FALSE]
       ELSE LET after(w) == [conn |-> w.conn, raised |-> w.raised, value |-> w.ok]
            IN after(write_page_ultralight(conn, page, <<r.value, g.value, b.value, a.value>>))

\* write_color_rgba_hex(conn, page, color_hex): True/False, or raises (int() or
\* the transmit)
write_color_rgba_hex(conn, page, color_hex) ==
    LET s0 == LStripHash(PyStrip(color_hex))
        s == IF Len(s0) = 6 THEN s0 \o <<70, 70>> ELSE s0
        r == PyIntHex(Slice(s, 0, 2))
        g == PyIntHex(Slice(s, 2, 4))
        b == PyIntHex(Slice(s, 4, 6))
        a == PyIntHex(Slice(s, 6, 8))
    IN IF Len(s0) \notin {6, 8} THEN [conn |-> conn, raised |-> FALSE, value |-> FALSE]
       ELSE IF ~(r.ok /\ g.ok /\ b.ok /\ a.ok)
       THEN [conn |-> conn, raised |-> TRUE, value |-> FALSE]
       ELSE LET after(w) == [conn |-> w.conn, raised |-> w.raised, value |-> w.ok]
            IN after(write_page_ultralight(conn, page, <<a.value, b.value, g.value, r.value>>))

\* write_anycubic_basic(conn, sku=, manufacturer=, material=, color_hex=): the
\* flags; an exception ends the writes and leaves the remaining flags False.
\* sent counts the transmits of each field, in field order.
write_anycubic_basic(conn, sku, manufacturer, material, color_hex) ==
    LET flags == [p05_sku |-> FALSE, p0A_manu |-> FALSE, p0F_mat |-> FALSE, p14_color |-> FALSE]
        n(c1, c2) == Len(c2.tx) - Len(c1.tx)
        color(w1, w2, w3, w4) ==
            [conn |-> w4.conn,
             results |-> [p05_sku |-> w1.value, p0A_manu |-> w2.value, p0F_mat |-> w3.value,
                          p14_color |-> IF w4.raised THEN FALSE ELSE w4.value],
             sent |-> <<n(conn, w1.conn), n(w1.conn, w2.conn), n(w2.conn, w3.conn),
                        n(w3.conn, w4.conn)>>]
        mat(w1, w2, w3) ==
            IF w3.raised
            THEN [conn |-> w3.conn,
                  results |-> [flags EXCEPT !.p05_sku = w1.value, !.p0A_manu = w2.value],
                  sent |-> <<n(conn, w1.conn), n(w1.conn, w2.conn), n(w2.conn, w3.conn), 0>>]
            ELSE color(w1, w2, w3, write_color_rgba_hex(w3.conn, \H14, color_hex))
        manu(w1, w2) ==
            IF w2.raised
            THEN [conn |-> w2.conn, results |-> [flags EXCEPT !.p05_sku = w1.value],
                  sent |-> <<n(conn, w1.conn), n(w1.conn, w2.conn), 0, 0>>]
            ELSE mat(w1, w2, write_ascii_z(w2.conn, \H0F, material, 16))
        first(w1) ==
            IF w1.raised
            THEN [conn |-> w1.conn, results |-> flags, sent |-> <<n(conn, w1.conn), 0, 0, 0>>]
            ELSE manu(w1, write_ascii_z(w1.conn, \H0A, manufacturer, 8))
    IN first(write_ascii_z(conn, \H05, sku, 32))

\* read_uid(conn): (uid or None, sw1, sw2)
read_uid(conn) ==
    LET answer(t) ==
            IF t.raised THEN [conn |-> t.conn, uid |-> None, sw1 |-> \H6F, sw2 |-> \H00]
            ELSE IF t.sw1 = \H90 /\ t.sw2 = \H00
                 THEN [conn |-> t.conn, uid |-> Some(t.data), sw1 |-> t.sw1, sw2 |-> t.sw2]
                 ELSE [conn |-> t.conn, uid |-> None, sw1 |-> t.sw1, sw2 |-> t.sw2]
    IN answer(Transmit(conn, <<\HFF, \HCA, \H00, \H00, \H00>>))

RECURSIVE read_string_loop(_, _, _, _)
\* the while loop of _read_ascii_z and of _read_string_page
read_string_loop(conn, buf, p, max_len) ==
    IF Len(buf) >= max_len THEN [conn |-> conn, buf |-> buf]
    ELSE LET after(r) ==
                 IF r.none \/ r.value = <<>> THEN [conn |-> r.conn, buf |-> buf]
                 ELSE IF HasZero(r.value) THEN [conn |-> r.conn, buf |-> buf \o r.value]
                 ELSE read_string_loop(r.conn, buf \o r.value, p + 1, max_len)
         IN after(read_page_ultralight(conn, p))

\* _read_ascii_z(conn, start_page, max_len)
_read_ascii_z(conn, start_page, max_len) ==
    LET decode(l) == [conn |-> l.conn, value |-> AsciiDecodeIgnore(UpToZero(l.buf))]
    IN decode(read_string_loop(conn, <<>>, start_page, max_len))

\* _read_string_page(conn, page, max_len)
_read_string_page(conn, page, max_len) ==
    LET decode(l) == [conn |-> l.conn, value |-> AsciiDecodeIgnore(UpToZero(l.buf))]
    IN decode(read_string_loop(conn, <<>>, page, max_len))

\* _read_color_rgba_hex(conn, page): '#RRGGBBAA' or None
_read_color_rgba_hex(conn, page) ==
    LET hex(v) == <<35>> \o Format02X(v[1]) \o Format02X(v[2])
                       \o Format02X(v[3]) \o Format02X(v[4])
        decode(q) ==
            IF q.none \/ Len(q.value) # 4 THEN [conn |-> q.conn, value |-> None]
            ELSE [conn |-> q.conn, value |-> Some(hex(Reversed(q.value)))]
    IN decode(read_page_ultralight(conn, page))

\* _read_u16_at(conn, page, byte_offset): little-endian u16 or None
_read_u16_at(conn, page, byte_offset) ==
    LET decode(q) ==
            IF q.none \/ q.value = <<>> \/ byte_offset \notin {0, 2}
            THEN [conn |-> q.conn, value |-> None]
            ELSE [conn |-> q.conn,
                  value |-> Some(q.value[byte_offset + 1] + 256 * q.value[byte_offset + 2])]
    IN decode(read_page_ultralight(conn, page))

\* _range_tuple(p_speed, p_noz) of read_anycubic_fields
_range_tuple(conn, p_speed, p_noz) ==
    LET noz_max(r1, r2, r3, r4) ==
            [value |-> [speed_min |-> r1.value, speed_max |-> r2.value,
                        nozzle_min |-> r3.value, nozzle_max |-> r4.value],
             conn |-> r4.conn]
        noz_min(r1, r2, r3) == noz_max(r1, r2, r3, _read_u16_at(r3.conn, p_noz, 2))
        speed_max(r1, r2) == noz_min(r1, r2, _read_u16_at(r2.conn, p_noz, 0))
        speed_min(r1) == speed_max(r1, _read_u16_at(r1.conn, p_speed, 2))
    IN speed_min(_read_u16_at(conn, p_speed, 0))

RECURSIVE read_params_loop(_, _, _)
\* the params loop of read_anycubic_fields: pages 23..31 as pairs of u16
\* (the keys p<pg>_a, p<pg>_b are kept as pg -> [a, b])
read_params_loop(conn, params, pg) ==
    IF pg >= 32 THEN [conn |-> conn, value |-> params]
    ELSE LET after(q) ==
                 IF q.none \/ q.value = <<>>
                 THEN read_params_loop(q.conn, params, pg + 1)
                 ELSE read_params_loop(q.conn,
                          DictSet(params, pg, [a |-> q.value[1] + 256 * q.value[2],
                                               b |-> q.value[3] + 256 * q.value[4]]),
                          pg + 1)
         IN after(read_page_ultralight(conn, pg))

\* out[key] = r.value, on the connection r leaves behind; st = [conn, value]
\* is what the reads before this one have left
SetField(st, key, r) ==
    Strict(st, [conn |-> r.conn, value |-> DictSet(st.value, key, r.value)])

\* read_anycubic_fields(conn): the dict of decoded fields, read in the order of
\* the code (innermost first).  diameter_mm is dia_raw / 100.0, kept as the
\* fraction [num, den]; a page read keeps its [none, value] pair.
read_anycubic_fields(conn) ==
    LET raw(q) == [conn |-> q.conn, value |-> [none |-> q.none, value |-> q.value]]
        div100(r) ==
            [conn |-> r.conn,
             value |-> IF r.value.none THEN None ELSE Some([num |-> r.value.value, den |-> 100])]
        uidOf(u) == [conn |-> u.conn, value |-> u.uid]
        uid(st) == SetField(st, "uid", uidOf(read_uid(st.conn)))
        sku(st) == SetField(st, "sku", _read_ascii_z(st.conn, 5, 32))
        manufacturer(st) == SetField(st, "manufacturer", _read_string_page(st.conn, \H0A, 16))
        material(st) == SetField(st, "material", _read_string_page(st.conn, \H0F, 16))
        color_hex(st) == SetField(st, "color_hex", _read_color_rgba_hex(st.conn, \H14))
        range_a(st) == SetField(st, "range_a", _range_tuple(st.conn, \H17, \H18))
        range_b(st) == SetField(st, "range_b", _range_tuple(st.conn, \H19, \H1A))
        range_c(st) == SetField(st, "range_c", _range_tuple(st.conn, \H1B, \H1C))
        bed_min(st) == SetField(st, "bed_min", _read_u16_at(st.conn, \H1D, 0))
        bed_max(st) == SetField(st, "bed_max", _read_u16_at(st.conn, \H1D, 2))
        diameter_mm(st) == SetField(st, "diameter_mm", div100(_read_u16_at(st.conn, \H1E, 0)))
        length_m(st) == SetField(st, "length_m", _read_u16_at(st.conn, \H1E, 2))
        weight_g(st) == SetField(st, "weight_g", _read_u16_at(st.conn, \H1F, 0))
        params(st) == SetField(st, "params", read_params_loop(st.conn, EmptyDict, 23))
        p20_raw(st) == SetField(st, "p20_raw", raw(read_page_ultralight(st.conn, 20)))
        p40_raw(st) == SetField(st, "p40_raw", raw(read_page_ultralight(st.conn, 40)))
        p41_raw(st) == SetField(st, "p41_raw", raw(read_page_ultralight(st.conn, 41)))
        p42_raw(st) == SetField(st, "p42_raw", raw(read_page_ultralight(st.conn, 42)))
    IN p42_raw(p41_raw(p40_raw(p20_raw(params(
       weight_g(length_m(diameter_mm(bed_max(bed_min(
       range_c(range_b(range_a(color_hex(
       material(manufacturer(sku(uid(
           [conn |-> conn, value |-> [atr |-> TagAtr]]))))))))))))))))))

----------------------------------------------------------------------------
(* NDEF TLV area (pcsc.py) *)

\* the triple find_ndef_tlv returns: (None, None, None), or
\* (value_off, ndef_len, total) with total None when the value is cut short
NotFound == [value_off |-> NoValue, ndef_len |-> NoValue, total |-> NoValue]

Found(value_off, ndef_len, total) ==
    [value_off |-> Some(value_off), ndef_len |-> Some(ndef_len), total |-> total]

\* (buf[i] << 8) | buf[i + 1], i an index of Python
BigEndian16(buf, i) == buf[i + 1] * 256 + buf[i + 2]

\* find_ndef_tlv that looks for the first 0x03 byte, skipping no TLV
find_ndef_tlv_scan(buf) ==
    IF \E k \in 1..(Len(buf) - 1) : buf[k] = \H03
    THEN LET k == CHOOSE j \in 1..(Len(buf) - 1) :
                      buf[j] = \H03 /\ \A h \in 1..(j - 1) : buf[h] # \H03
         IN IF k + 1 + buf[k + 1] <= Len(buf)
            THEN Found(k + 1, buf[k + 1], Some(2 + buf[k + 1]))
            ELSE Found(k + 1, buf[k + 1], NoValue)
    ELSE NotFound

\* where the loop of find_ndef_tlv stands after the iterations that skip the
\* NULL TLVs from index i (if t == 0x00: i += 1; continue), taken together
SkipNullTlvs(buf, i) ==
    LET stops == {j \in i..(Len(buf) - 1) : buf[j + 1] # \H00} \cup {Len(buf)}
    IN IF i >= Len(buf) THEN i ELSE CHOOSE j \in stops : \A h \in stops : j <= h

RECURSIVE find_ndef_tlv_loop(_, _)
\* the while loop of find_ndef_tlv from index i (an index of Python: buf[i] is
\* the element i + 1 of the sequence)
find_ndef_tlv_loop(buf, i) ==
    LET n == Len(buf)
        t == buf[i + 1]
        l == buf[i + 2]
        ext == BigEndian16(buf, i + 2)
    IN IF i >= n THEN NotFound
       ELSE IF t = \H00 THEN find_ndef_tlv_loop(buf, SkipNullTlvs(buf, i + 1))
       ELSE IF t = \HFE THEN NotFound
       ELSE IF i + 1 >= n THEN NotFound
       ELSE IF t = \H03
            THEN IF l # \HFF
                 THEN IF i + 2 + l <= n
                      THEN Found(i + 2, l, Some(2 + l))
                      ELSE Found(i + 2, l, NoValue)
                 ELSE IF i + 3 >= n THEN NotFound
                 ELSE IF i + 4 + ext <= n
                      THEN Found(i + 4, ext, Some(4 + ext))
                      ELSE Found(i + 4, ext, NoValue)
            ELSE IF l # \HFF THEN find_ndef_tlv_loop(buf, i + 2 + l)
                 ELSE IF i + 3 >= n THEN NotFound
                 ELSE find_ndef_tlv_loop(buf, i + 4 + ext)

\* find_ndef_tlv(mem), the parameter written buf here
find_ndef_tlv(buf) == find_ndef_tlv_loop(buf, 0)

RECURSIVE read_pages_ultralight_loop(_, _, _, _)
\* the for loop of read_pages_ultralight over p in range(p, stop)
read_pages_ultralight_loop(conn, out, p, stop) ==
    IF p >= stop THEN [conn |-> conn, value |-> out]
    ELSE LET after(b) ==
                 IF b.none THEN [conn |-> b.conn, value |-> out]
                 ELSE read_pages_ultralight_loop(b.conn, out \o b.value, p + 1, stop)
         IN TheOne({after(x) : x \in {read_page_ultralight(conn, p)}})

\* read_pages_ultralight(conn, start_page, page_count): the bytes read up to the
\* first page that fails
read_pages_ultralight(conn, start_page, page_count) ==
    read_pages_ultralight_loop(conn, <<>>, start_page, start_page + page_count)

\* read_ndef_tlv when called: collected = bytearray(), pages_read = 0
read_ndef_tlv_enter ==
    [raised |-> FALSE, done |-> FALSE, value |-> None, collected |-> <<>>, pages_read |-> 0]

\* the iteration of read_ndef_tlv without its final pages_read += to_read
read_ndef_tlv_step_stuck(conn, fr, max_pages) ==
    IF fr.pages_read >= max_pages
    THEN [conn |-> conn, frame |-> [fr EXCEPT !.done = TRUE, !.value = None]]
    ELSE LET to_read == Min(16, max_pages - fr.pages_read)
             scanned(c, collected, f) ==
                 IF ~f.value_off.none /\ ~f.ndef_len.none
                    /\ f.value_off.value + f.ndef_len.value <= Len(collected)
                 THEN [conn |-> c,
                       frame |-> [fr EXCEPT !.done = TRUE, !.collected = collected,
                                     !.value = Some(Slice(collected, f.value_off.value,
                                                          f.value_off.value + f.ndef_len.value))]]
                 ELSE [conn |-> c,
                       frame |-> [fr EXCEPT !.collected = collected]]
             after(chunk) ==
                 LET extended(collected) ==
                         LET found(f) == scanned(chunk.conn, collected, f)
                         IN TheOne({found(x) : x \in {find_ndef_tlv(collected)}})
                 IN IF chunk.value = <<>>
                    THEN [conn |-> chunk.conn,
                          frame |-> [fr EXCEPT !.done = TRUE, !.value = None]]
                    ELSE TheOne({extended(x) : x \in {fr.collected \o chunk.value}})
         IN TheOne({after(x) : x \in {read_pages_ultralight(conn, 4 + fr.pages_read, to_read)}})

\* one evaluation of the while condition of read_ndef_tlv and, when it holds,
\* of the loop body; fr = [done, value, collected, pages_read] are the locals
\* and the value returned
read_ndef_tlv_step(conn, fr, max_pages) ==
    IF fr.pages_read >= max_pages
    THEN [conn |-> conn, frame |-> [fr EXCEPT !.done = TRUE, !.value = None]]
    ELSE LET to_read == Min(16, max_pages - fr.pages_read)
             scanned(c, collected, f) ==
                 IF ~f.value_off.none /\ ~f.ndef_len.none
                    /\ f.value_off.value + f.ndef_len.value <= Len(collected)
                 THEN [conn |-> c,
                       frame |-> [fr EXCEPT !.done = TRUE, !.collected = collected,
                                     !.value = Some(Slice(collected, f.value_off.value,
                                                          f.value_off.value + f.ndef_len.value))]]
                 ELSE [conn |-> c,
                       frame |-> [fr EXCEPT !.collected = collected,
                                            !.pages_read = @ + to_read]]
             after(chunk) ==
                 LET extended(collected) ==
                         LET found(f) == scanned(chunk.conn, collected, f)
                         IN TheOne({found(x) : x \in {find_ndef_tlv(collected)}})
                 IN IF chunk.value = <<>>
                    THEN [conn |-> chunk.conn,
                          frame |-> [fr EXCEPT !.done = TRUE, !.value = None]]
                    ELSE TheOne({extended(x) : x \in {fr.collected \o chunk.value}})
         IN TheOne({after(x) : x \in {read_pages_ultralight(conn, 4 + fr.pages_read, to_read)}})

----------------------------------------------------------------------------
(* NDEF record decoding (pcsc.py) *)

\* U+FFFD, what errors="replace" puts for bytes that do not decode
Replacement == 65533

Utf8IsContinuation(c) == c >= \H80 /\ c <= \HBF

\* the continuation bytes a UTF-8 lead byte asks for, 0 for a byte that is none
Utf8Need(c) ==
    IF c >= \HC2 /\ c <= \HDF THEN 1
    ELSE IF c >= \HE0 /\ c <= \HEF THEN 2
    ELSE IF c >= \HF0 /\ c <= \HF4 THEN 3
    ELSE 0

\* whether c2 may follow the lead byte c (no overlong forms, no surrogates,
\* nothing above U+10FFFF)
Utf8SecondOk(c, c2) ==
    IF c = \HE0 THEN c2 >= \HA0 /\ c2 <= \HBF
    ELSE IF c = \HED THEN c2 >= \H80 /\ c2 <= \H9F
    ELSE IF c = \HF0 THEN c2 >= \H90 /\ c2 <= \HBF
    ELSE IF c = \HF4 THEN c2 >= \H80 /\ c2 <= \H8F
    ELSE Utf8IsContinuation(c2)

RECURSIVE Utf8Accepted(_, _, _, _)
\* how many of the need continuation bytes of the lead byte at index i are there,
\* counted from the k-th
Utf8Accepted(b, i, k, need) ==
    IF k > need \/ i + k > Len(b) - 1 THEN k - 1
    ELSE IF (k = 1 /\ Utf8SecondOk(b[i + 1], b[i + 2]))
            \/ (k > 1 /\ Utf8IsContinuation(b[i + k + 1]))
         THEN Utf8Accepted(b, i, k + 1, need)
         ELSE k - 1

\* the code point of the sequence of 1 + need bytes at index i
Utf8CodePoint(b, i, need) ==
    IF need = 1 THEN (b[i + 1] % 32) * 64 + (b[i + 2] % 64)
    ELSE IF need = 2 THEN (b[i + 1] % 16) * 4096 + (b[i + 2] % 64) * 64 + (b[i + 3] % 64)
    ELSE (b[i + 1] % 8) * 262144 + (b[i + 2] % 64) * 4096 + (b[i + 3] % 64) * 64
         + (b[i + 4] % 64)

RECURSIVE Utf8DecodeFrom(_, _)
Utf8DecodeFrom(b, i) ==
    IF i >= Len(b) THEN <<>>
    ELSE IF b[i + 1] < \H80 THEN <<b[i + 1]>> \o Utf8DecodeFrom(b, i + 1)
    ELSE IF Utf8Need(b[i + 1]) = 0 THEN <<Replacement>> \o Utf8DecodeFrom(b, i + 1)
    ELSE IF Utf8Accepted(b, i, 1, Utf8Need(b[i + 1])) = Utf8Need(b[i + 1])
         THEN <<Utf8CodePoint(b, i, Utf8Need(b[i + 1]))>>
              \o Utf8DecodeFrom(b, i + 1 + Utf8Need(b[i + 1]))
         ELSE <<Replacement>>
              \o Utf8DecodeFrom(b, i + 1 + Utf8Accepted(b, i, 1, Utf8Need(b[i + 1])))

\* b.decode("utf-8", errors="replace"): the code points of the text
Utf8DecodeReplace(b) == Utf8DecodeFrom(b, 0)

\* the 16-bit unit at index i
Utf16Unit(b, i, big) ==
    IF big THEN b[i + 1] * 256 + b[i + 2] ELSE b[i + 2] * 256 + b[i + 1]

IsHighSurrogate(u) == u >= 55296 /\ u <= 56319

IsLowSurrogate(u) == u >= 56320 /\ u <= 57343

RECURSIVE Utf16DecodeFrom(_, _, _)
Utf16DecodeFrom(b, i, big) ==
    IF i >= Len(b) THEN <<>>
    ELSE IF i + 1 >= Len(b) THEN <<Replacement>>
    ELSE IF IsLowSurrogate(Utf16Unit(b, i, big))
         THEN <<Replacement>> \o Utf16DecodeFrom(b, i + 2, big)
    ELSE IF ~IsHighSurrogate(Utf16Unit(b, i, big))
         THEN <<Utf16Unit(b, i, big)>> \o Utf16DecodeFrom(b, i + 2, big)
    ELSE IF i + 3 >= Len(b) THEN <<Replacement>>
    ELSE IF IsLowSurrogate(Utf16Unit(b, i + 2, big))
         THEN <<65536 + (Utf16Unit(b, i, big) - 55296) * 1024
                      + (Utf16Unit(b, i + 2, big) - 56320)>>
              \o Utf16DecodeFrom(b, i + 4, big)
         ELSE <<Replacement>> \o Utf16DecodeFrom(b, i + 2, big)

\* b.decode("utf-16", errors="replace"): a byte order mark chooses the byte
\* order and is dropped, little-endian without one
Utf16DecodeReplace(b) ==
    IF Len(b) >= 2 /\ b[1] = \HFF /\ b[2] = \HFE THEN Utf16DecodeFrom(b, 2, FALSE)
    ELSE IF Len(b) >= 2 /\ b[1] = \HFE /\ b[2] = \HFF THEN Utf16DecodeFrom(b, 2, TRUE)
    ELSE Utf16DecodeFrom(b, 0, FALSE)

\* the URI prefixes of decode_ndef_records, as code points
UriPrefixes ==
    <<
        <<>>,  \* ""
        <<104, 116, 116, 112, 58, 47, 47, 119, 119, 119, 46>>,  \* "http://www."
        <<104, 116, 116, 112, 115, 58, 47, 47, 119, 119, 119, 46>>,  \* "https://www."
        <<104, 116, 116, 112, 58, 47, 47>>,  \* "http://"
        <<104, 116, 116, 112, 115, 58, 47, 47>>,  \* "https://"
        <<116, 101, 108, 58>>,  \* "tel:"
        <<109, 97, 105, 108, 116, 111, 58>>,  \* "mailto:"
        <<102, 116, 112, 58, 47, 47, 97, 110, 111, 110, 121, 109, 111, 117, 115, 58, 97, 110, 111, 110, 121, 109, 111, 117, 115, 64>>,  \* "ftp://anonymous:anonymous@"
        <<102, 116, 112, 58, 47, 47, 102, 116, 112, 46>>,  \* "ftp://ftp."
        <<102, 116, 112, 115, 58, 47, 47>>,  \* "ftps://"
        <<115, 102, 116, 112, 58, 47, 47>>,  \* "sftp://"
        <<115, 109, 98, 58, 47, 47>>,  \* "smb://"
        <<110, 102, 115, 58, 47, 47>>,  \* "nfs://"
        <<102, 116, 112, 58, 47, 47>>,  \* "ftp://"
        <<100, 97, 118, 58, 47, 47>>,  \* "dav://"
        <<110, 101, 119, 115, 58>>,  \* "news:"
        <<116, 101, 108, 110, 101, 116, 58, 47, 47>>,  \* "telnet://"
        <<105, 109, 97, 112, 58>>,  \* "imap:"
        <<114, 116, 115, 112, 58, 47, 47>>,  \* "rtsp://"
        <<117, 114, 110, 58>>,  \* "urn:"
        <<112, 111, 112, 58>>,  \* "pop:"
        <<115, 105, 112, 58>>,  \* "sip:"
        <<115, 105, 112, 115, 58>>,  \* "sips:"
        <<116, 102, 116, 112, 58>>,  \* "tftp:"
        <<98, 116, 115, 112, 112, 58, 47, 47>>,  \* "btspp://"
        <<98, 116, 108, 50, 99, 97, 112, 58, 47, 47>>,  \* "btl2cap://"
        <<98, 116, 103, 111, 101, 112, 58, 47, 47>>,  \* "btgoep://"
        <<116, 99, 112, 111, 98, 101, 120, 58, 47, 47>>,  \* "tcpobex://"
        <<105, 114, 100, 97, 111, 98, 101, 120, 58, 47, 47>>,  \* "irdaobex://"
        <<102, 105, 108, 101, 58, 47, 47>>,  \* "file://"
        <<117, 114, 110, 58, 101, 112, 99, 58, 105, 100, 58>>,  \* "urn:epc:id:"
        <<117, 114, 110, 58, 101, 112, 99, 58, 116, 97, 103, 58>>,  \* "urn:epc:tag:"
        <<117, 114, 110, 58, 101, 112, 99, 58, 112, 97, 116, 58>>,  \* "urn:epc:pat:"
        <<117, 114, 110, 58, 101, 112, 99, 58, 114, 97, 119, 58>>,  \* "urn:epc:raw:"
        <<117, 114, 110, 58, 101, 112, 99, 58>>,  \* "urn:epc:"
        <<117, 114, 110, 58, 110, 102, 99, 58>>   \* "urn:nfc:"
    >>

\* the strings decode_ndef_records appends, by their parts:
\* f"Text('{text}', lang={lang})"
TextEntry(text, lang) ==
    [kind |-> "Text", tnf |-> 0, type |-> <<>>, len |-> 0, text |-> text, lang |-> lang]

\* f"URI('{uri}')"
UriEntry(uri) ==
    [kind |-> "URI", tnf |-> 0, type |-> <<>>, len |-> 0, text |-> uri, lang |-> <<>>]

\* f"WellKnown(type={type_field!r}, {len(payload)} bytes)"
WellKnownEntry(type_field, n) ==
    [kind |-> "WellKnown", tnf |-> 0, type |-> type_field, len |-> n, text |-> <<>>,
     lang |-> <<>>]

\* f"TNF={tnf}, type={type_field!r}, {len(payload)} bytes"
TnfEntry(tnf, type_field, n) ==
    [kind |-> "TNF", tnf |-> tnf, type |-> type_field, len |-> n, text |-> <<>>,
     lang |-> <<>>]

\* f"Raw NDEF ({len(ndef)} bytes)"
RawNdefEntry(n) ==
    [kind |-> "Raw NDEF", tnf |-> 0, type |-> <<>>, len |-> n, text |-> <<>>, lang |-> <<>>]

\* the string appended for a record of decode_ndef_records
RecordEntry(tnf, type_field, payload) ==
    IF tnf = 1
    THEN IF type_field = <<\H54>> /\ payload # <<>>
         THEN LET status == payload[1]
                  lang_len == status % 64
                  utf16 == status >= 128
              IN TextEntry(IF utf16 THEN Utf16DecodeReplace(Slice(payload, 1 + lang_len, Len(payload)))
                           ELSE Utf8DecodeReplace(Slice(payload, 1 + lang_len, Len(payload))),
                           AsciiDecodeIgnore(Slice(payload, 1, 1 + lang_len)))
         ELSE IF type_field = <<\H55>> /\ payload # <<>>
         THEN LET code == payload[1]
              IN UriEntry((IF code < Len(UriPrefixes) THEN UriPrefixes[code + 1] ELSE <<>>)
                          \o Utf8DecodeReplace(Slice(payload, 1, Len(payload))))
         ELSE WellKnownEntry(type_field, Len(payload))
    ELSE TnfEntry(tnf, type_field, Len(payload))

\* (ndef[i] << 24) | (ndef[i+1] << 16) | (ndef[i+2] << 8) | ndef[i+3]
BigEndian32(ndef, i) ==
    ndef[i + 1] * 16777216 + ndef[i + 2] * 65536 + ndef[i + 3] * 256 + ndef[i + 4]

RECURSIVE decode_ndef_records_loop(_, _, _, _)
\* the while loop of decode_ndef_records from index i; reads lists the value
\* of i at the start of every iteration
decode_ndef_records_loop(ndef, i, out, reads) ==
    LET n == Len(ndef)
        hdr == ndef[i + 1]
        sr == (hdr \div 16) % 2 = 1
        tnf == hdr % 8
        type_len == ndef[i + 2]
        left == [out |-> out, reads |-> Append(reads, i)]
        record(j, payload_len) ==
            decode_ndef_records_loop(
                ndef, j + type_len + payload_len,
                Append(out, RecordEntry(tnf, Slice(ndef, j, j + type_len),
                                        Slice(ndef, j + type_len, j + type_len + payload_len))),
                Append(reads, i))
    IN IF i >= n THEN [out |-> out, reads |-> reads]
       ELSE IF i + 1 >= n THEN left
       ELSE IF sr
            THEN IF i + 2 >= n THEN left ELSE record(i + 3, ndef[i + 3])
            ELSE IF i + 2 + 3 >= n THEN left ELSE record(i + 6, BigEndian32(ndef, i + 2))

\* decode_ndef_records without its fallback for an empty list
decode_ndef_records_nofallback(ndef) ==
    LET after(r) == [raised |-> FALSE, value |-> r.out, reads |-> r.reads]
    IN after(decode_ndef_records_loop(ndef, 0, <<>>, <<>>))

\* decode_ndef_records(ndef): value is the list returned. No statement of the
\* try block raises on bytes (every index follows a bounds check, slices clamp,
\* the decoders replace or ignore), so the except clause stays out of it.
decode_ndef_records(ndef) ==
    LET after(r) ==
            [raised |-> FALSE,
             value |-> IF r.out = <<>> THEN <<RawNdefEntry(Len(ndef))>> ELSE r.out,
             reads |-> r.reads]
    IN after(decode_ndef_records_loop(ndef, 0, <<>>, <<>>))

----------------------------------------------------------------------------
(* Field-to-page mapping helpers (nfc_fields.py) *)

\* PageSpan(start, pages)
PageSpan(start, pages) == [start |-> start, pages |-> pages]

\* list(span.iter_pages()): the pages of the span, ascending
iter_pages(span) == [i \in 1..span.pages |-> span.start + i - 1]

\* to_rgba_bytes(hex_full): 4 bytes R, G, B, A, or raises ValueError (int())
to_rgba_bytes(hex_full) ==
    LET s0 == PyUpper(LStripHash(PyStrip(hex_full)))
        s1 == IF Len(s0) = 6 THEN s0 \o <<70, 70>> ELSE s0
        s == IF Len(s1) < 8 THEN s1 \o [i \in 1..(8 - Len(s1)) |-> 48] ELSE s1
        v == [i \in 1..4 |-> PyIntHex(Slice(s, 2 * (i - 1), 2 * i))]
    IN IF Len(s0) = 0 THEN [raised |-> FALSE, value |-> <<\H00, \H00, \H00, \HFF>>]
       ELSE IF \E i \in 1..4 : ~v[i].ok THEN [raised |-> TRUE, value |-> <<>>]
       ELSE [raised |-> FALSE, value |-> [i \in 1..4 |-> v[i].value]]

RECURSIVE _chunk4_loop(_, _)
\* the while loop of _chunk4
_chunk4_loop(data, off) ==
    IF off >= Len(data) THEN <<>>
    ELSE LET c == Slice(data, off, off + 4)
         IN <<c \o Zeros(4 - Len(c))>> \o _chunk4_loop(data, off + 4)

NoMaxPages == -1

\* _chunk4(data, max_pages): max_pages = NoMaxPages stands for None
_chunk4(data, max_pages) ==
    IF Len(data) = 0 THEN <<>>
    ELSE _chunk4_loop(IF max_pages = NoMaxPages THEN data ELSE Slice(data, 0, max_pages * 4), 0)

\* map_ascii_span(span, text, max_pages=): {page: 4 bytes}
map_ascii_span(span, text, max_pages) ==
    IF Len(text) = 0 THEN EmptyDict
    ELSE LET raw == AsciiEncodeIgnore(text)
             pages == iter_pages(span)
             chunks == _chunk4(raw, max_pages)
         IN [p \in {pages[i] : i \in 1..Min(Len(pages), Len(chunks))} |->
                chunks[p - span.start + 1]]

\* map_color_rgba(span_color, hex_full): {page: 4 bytes}, or raises
map_color_rgba(span_color, hex_full) ==
    IF span_color.pages <= 0 THEN [raised |-> FALSE, value |-> EmptyDict]
    ELSE LET b == to_rgba_bytes(hex_full)
         IN IF b.raised THEN [raised |-> TRUE, value |-> EmptyDict]
            ELSE [raised |-> FALSE, value |-> (span_color.start :> b.value)]

\* map_u16 with the two bytes in big-endian order whatever byteorder says
map_u16_swapped(span, value, byteorder) ==
    IF span.pages <= 0 \/ value.none THEN EmptyDict
    ELSE LET v == value.value % 65536
         IN (span.start :> <<(v \div 256) % 256, v % 256, \H00, \H00>>)

\* map_u16(span, value, byteorder=): {page: 4 bytes}; value is None or Some(int)
map_u16(span, value, byteorder) ==
    IF span.pages <= 0 \/ value.none THEN EmptyDict
    ELSE LET v == value.value % 65536
             b0 == IF byteorder = "big" THEN (v \div 256) % 256 ELSE v % 256
             b1 == IF byteorder = "big" THEN v % 256 ELSE (v \div 256) % 256
         IN (span.start :> <<b0, b1, \H00, \H00>>)

----------------------------------------------------------------------------
(* Inputs of the scenarios *)

\* a payload of n bytes, every byte non-zero and different from its neighbours
Payload(n) == [i \in 1..n |-> \HA0 + i]

Payloads == {Payload(n) : n \in 0..MaxPayloadLen}

\* start pages around both ends of the user area
StartPages == {-1, \H00, \H02, \H03, \H04, \H05, \H26, \H27, \H28, \H29, \H2A, \H2C}

\* pages addressed by the single-page calls
ProbePages == {\H00, \H03, \H04, \H05, \H06, \H07, \H0A, \H14, \H28, \H2A}

\* a tag fresh from the factory, and one every page of which holds bytes of its
\* own, none of them zero
BlankTag == EmptyDict

UsedTag == [p \in \H00..\H3F |-> <<\H30 + p, \H5A, \H59, \H58>>]

\* the pages of a 64-page tag
TagPages == {p \in \H00..\H3F : TRUE}

InitialTags == {BlankTag, UsedTag}

\* descriptors for tags other than the one detect_user_area assumes: a larger
\* user area that reaches over the lock/config pages, and a locked page inside it
UserAreaDescriptors ==
    { detect_user_area,
      [detect_user_area EXCEPT !.user_end = \H2E],
      [detect_user_area EXCEPT !.protected = @ \cup {\H06}] }

\* class P: the spans of the fields
P_SKU == PageSpan(\H05, 5)

P_MATERIAL == PageSpan(\H15, 8)

P_MANUFACTURER == PageSpan(\H10, 1)

P_COLOR == PageSpan(\H20, 1)

P_DIAMETER_CENTI == PageSpan(\H11, 1)

P_WEIGHT_G == PageSpan(\H31, 1)

\* values for the u16 fields: in range, at the byte and word boundaries, beyond
\* 16 bits and negative
U16Inputs == {-65537, -256, -1, 0, 1, 175, 255, 256, 1000, 4660, 65535, 65536, 65711, 131071}

\* "ABCDEFG..." of n characters
Sku(n) == [i \in 1..n |-> 65 + ((i - 1) % 26)]

\* SKUs of every length, "AHHSCG-101", and one with a non-ASCII character ("A\u00c4B-1")
SkuInputs ==
    {Sku(n) : n \in 0..MaxSkuLen}
    \cup {<<65, 72, 72, 83, 67, 71, 45, 49, 48, 49>>, <<65, 196, 66, 45, 49>>}

\* "", "AC", "ANYCUBIC3"
Manufacturers == {<<>>, <<65, 67>>, <<65, 78, 89, 67, 85, 66, 73, 67, 51>>}

\* "PLA+", and 17 characters "abcdefghijklmnopq"
Materials == {<<80, 76, 65, 43>>, [i \in 1..17 |-> 96 + i]}

\* s.lower() on ASCII
PyLower(s) == [i \in 1..Len(s) |-> IF s[i] >= 65 /\ s[i] <= 90 THEN s[i] + 32 ELSE s[i]]

ColorBytes == {\H00, \H1A, \HCD}

AlphaBytes == {\H00, \H7B, \HFF}

\* '#RRGGBB' and '#RRGGBBAA', in upper and in lower case
ValidColors ==
    LET rgb == {<<35>> \o Format02X(r) \o Format02X(g) \o Format02X(b) :
                    r \in ColorBytes, g \in ColorBytes, b \in ColorBytes}
        rgba == {c \o Format02X(a) : c \in rgb, a \in AlphaBytes}
    IN rgb \cup rgba \cup {PyLower(c) : c \in rgb \cup rgba}

\* strings that are not '#' followed by 6 or 8 hex digits:
\* "", "#", "#12", "#FFF", "#12345", "#1234567", "#123456789", "#GGGGGG",
\* "#12345G", "800080", "##800080", " #800080 ", "#80 080", "#8000 0"
InvalidColors ==
    { <<>>, <<35>>, <<35, 49, 50>>, <<35, 70, 70, 70>>, <<35, 49, 50, 51, 52, 53>>,
      <<35, 49, 50, 51, 52, 53, 54, 55>>, <<35, 49, 50, 51, 52, 53, 54, 55, 56, 57>>,
      <<35, 71, 71, 71, 71, 71, 71>>, <<35, 49, 50, 51, 52, 53, 71>>,
      <<56, 48, 48, 48, 56, 48>>, <<35, 35, 56, 48, 48, 48, 56, 48>>,
      <<32, 35, 56, 48, 48, 48, 56, 48, 32>>, <<35, 56, 48, 32, 48, 56, 48>>,
      <<35, 56, 48, 48, 48, 32, 48>> }

ColorInputs == ValidColors \cup InvalidColors

\* "#800080", "#1a2B3cCC", "#GGGGGG"
BasicColors ==
    { <<35, 56, 48, 48, 48, 56, 48>>, <<35, 49, 97, 50, 66, 51, 99, 67, 67>>,
      <<35, 71, 71, 71, 71, 71, 71>> }

ColorPages == {\H14, \H20}

----------------------------------------------------------------------------
(* Scenarios of the transport and the user-area policy *)

InitTag ==
    /\ op = "idle" /\ args = <<>> /\ ret = <<>> /\ tx = <<>> /\ prev = <<>>
    /\ rows = <<>> /\ win = <<>>
    /\ mem \in InitialTags

Init == InitTag /\ fault \in FaultMaps /\ ua = detect_user_area

InitUA == InitTag /\ fault \in FaultMaps /\ ua \in UserAreaDescriptors

WriteRawPages ==
    /\ op = "idle"
    /\ \E start_page \in StartPages, data_bytes \in Payloads, skip_protected \in BOOLEAN :
          LET r == write_raw_pages(Conn(mem, fault), ua, start_page, data_bytes, skip_protected)
          IN /\ op' = "write_raw_pages"
             /\ args' = [start_page |-> start_page, data_bytes |-> data_bytes,
                         skip_protected |-> skip_protected]
             /\ ret' = [raised |-> FALSE, value |-> r.result]
             /\ tx' = r.conn.tx
             /\ mem' = r.conn.mem
    /\ UNCHANGED <<prev, fault, ua, rows, win>>

ClearUserArea ==
    /\ op = "idle"
    /\ LET r == clear_user_area(Conn(mem, fault), ua)
       IN /\ op' = "clear_user_area"
          /\ args' = <<>>
          /\ ret' = [raised |-> FALSE, value |-> r.result]
          /\ tx' = r.conn.tx
          /\ mem' = r.conn.mem
    /\ UNCHANGED <<prev, fault, ua, rows, win>>

ReadSinglePage ==
    /\ op = "idle"
    /\ \E page \in TagPages :
          LET r == read_single_page(Conn(mem, fault), page)
          IN /\ op' = "read_single_page"
             /\ args' = [page |-> page]
             /\ ret' = [raised |-> r.raised, value |-> r.value]
             /\ tx' = r.conn.tx
             /\ mem' = r.conn.mem
    /\ UNCHANGED <<prev, fault, ua, rows, win>>

ReadPageUltralight ==
    /\ op = "idle"
    /\ \E page \in ProbePages :
          LET r == read_page_ultralight(Conn(mem, fault), page)
          IN /\ op' = "read_page_ultralight"
             /\ args' = [page |-> page]
             /\ ret' = [raised |-> FALSE, none |-> r.none, value |-> r.value]
             /\ tx' = r.conn.tx
             /\ mem' = r.conn.mem
    /\ UNCHANGED <<prev, fault, ua, rows, win>>

WritePageUltralight ==
    /\ op = "idle"
    /\ \E page \in ProbePages, data4 \in {Payload(3), Payload(4), Zeros(4)} :
          LET r == write_page_ultralight(Conn(mem, fault), page, data4)
          IN /\ op' = "write_page_ultralight"
             /\ args' = [page |-> page, data4 |-> data4]
             /\ ret' = [raised |-> r.raised, ok |-> r.ok, sw1 |-> r.sw1, sw2 |-> r.sw2]
             /\ tx' = r.conn.tx
             /\ mem' = r.conn.mem
    /\ UNCHANGED <<prev, fault, ua, rows, win>>

Next == WriteRawPages \/ ClearUserArea \/ ReadSinglePage \/ ReadPageUltralight \/ WritePageUltralight

\* the transport and the policy helpers on the tag detect_user_area assumes
Spec == Init /\ [][Next]_vars

\* the same calls with the user-area descriptor as a parameter
SpecUA == InitUA /\ [][Next]_vars

----------------------------------------------------------------------------
(* Claims about the transport and the user-area policy *)

\* the pages of the write APDUs of the call, in the order they were transmitted
RECURSIVE WrittenPages(_)
WrittenPages(log) ==
    IF log = <<>> THEN <<>>
    ELSE (IF IsWriteApdu(Head(log).apdu) THEN <<ApduPage(Head(log).apdu)>> ELSE <<>>)
         \o WrittenPages(Tail(log))

SeqRange(q) == {q[k] : k \in 1..Len(q)}

\* the pages a write_raw_pages call targets
TargetedPages ==
    {args.start_page + i : i \in 0..(((Len(args.data_bytes) + 3) \div 4) - 1)}

HardProtected == {\H00, \H01, \H02, \H03, \H2A, \H2B, \H2C, \H2D}

\* C1: write_raw_pages transmits only write APDUs, and only for targeted pages p
\* with 0x04 <= p < 0x29 outside the protected set; every other targeted page is
\* recorded as false and nothing is transmitted for it, whatever skip_protected is.
C1_WriteRawPagesGuardsUserArea ==
    op = "write_raw_pages" =>
        /\ \A k \in 1..Len(tx) :
              /\ IsWriteApdu(tx[k].apdu)
              /\ ApduPage(tx[k].apdu) \in TargetedPages
              /\ \H04 <= ApduPage(tx[k].apdu) /\ ApduPage(tx[k].apdu) < \H29
              /\ ApduPage(tx[k].apdu) \notin HardProtected
        /\ \A p \in TargetedPages :
              (p < \H04 \/ p >= \H29 \/ p \in HardProtected) =>
                  /\ p \in DOMAIN ret.value /\ ret.value[p] = FALSE
                  /\ \A k \in 1..Len(tx) : ApduPage(tx[k].apdu) # LowByte(p)

\* C1 witness: a call without skip_protected that starts on protected page 0x03
\* and runs into the user area: page 3 is refused, page 4 is written.
C1_Witness ==
    /\ op = "write_raw_pages" /\ ~args.skip_protected /\ args.start_page = \H03
    /\ Len(args.data_bytes) > 4
    /\ ret.value[\H03] = FALSE
    /\ WrittenPages(tx) = <<\H04>>

BulkWritable ==
    IF op = "clear_user_area" THEN Range(ua.user_start, ua.user_end)
    ELSE {p \in TargetedPages :
            /\ ua.user_start <= p /\ p < ua.user_end
            /\ ~(args.skip_protected /\ p \in ua.protected)}

\* each writable page is written once, in ascending order, failures or not
BulkWritesOncePerPageAscending ==
    (op \in {"clear_user_area", "write_raw_pages"}) =>
        /\ SeqRange(WrittenPages(tx)) = BulkWritable
        /\ Len(WrittenPages(tx)) = Len(tx)
        /\ \A j, k \in 1..Len(tx) : j < k => ApduPage(tx[j].apdu) < ApduPage(tx[k].apdu)
        /\ (op = "clear_user_area" => DOMAIN ret.value = Range(ua.user_start, ua.user_end))

\* C3: in clear_user_area and write_raw_pages each targeted writable page gets
\* exactly one write APDU, in ascending page order; a write that fails (status
\* word other than 90 00, or an exception) is recorded as false, and the result
\* of clear_user_area has exactly the keys user_start..user_end-1.
C3_BulkWritesRecordEveryFailure ==
    /\ BulkWritesOncePerPageAscending
    /\ (op \in {"clear_user_area", "write_raw_pages"}) =>
          \A k \in 1..Len(tx) :
              tx[k].rsp # Acknowledged => ret.value[ApduPage(tx[k].apdu)] = FALSE

\* C4: an exchange whose status word is not 90 00 is reported as a failure by
\* every page read and write.
C4_NonSuccessStatusIsFailure ==
    \A k \in 1..Len(tx) :
        (~tx[k].rsp.exc /\ tx[k].rsp # Acknowledged) =>
            CASE op = "read_single_page" -> ret.raised
              [] op = "read_page_ultralight" -> ret.none
              [] op = "write_page_ultralight" -> ~ret.ok
              [] op \in {"write_raw_pages", "clear_user_area"} ->
                    ret.value[ApduPage(tx[k].apdu)] = FALSE
              [] OTHER -> TRUE

\* C14: read_single_page transmits exactly one READ APDU, to the group base page
\* (the page floored to a multiple of 4) with length 16, and when the tag answers
\* it returns the 4 bytes of the page asked for, for every page 0..63.
C14_ReadSinglePageSlicesGroup ==
    op = "read_single_page" =>
        /\ Len(tx) = 1
        /\ tx[1].apdu = <<\HFF, \HB0, \H00, 4 * (args.page \div 4), \H10>>
        /\ tx[1].rsp = Acknowledged =>
              ~ret.raised /\ ret.value = PageAt(mem, args.page)

\* C14 witness: page 0x07 of the used tag, read through the group at 0x04.
C14_Witness ==
    /\ op = "read_single_page" /\ args.page = \H07
    /\ Len(tx) = 1 /\ ApduPage(tx[1].apdu) = \H04 /\ tx[1].rsp = Acknowledged
    /\ ~ret.raised /\ ret.value = <<\H37, \H5A, \H59, \H58>>

----------------------------------------------------------------------------
(* Scenarios of the field codec *)

InitCodec == InitTag /\ fault \in FaultMapsUpTo(1) /\ ua = detect_user_area

\* the call that has just run, as the next call's prev
ThisCall == [op |-> op, args |-> args, ret |-> ret, tx |-> tx]

WriteAnycubicBasic ==
    /\ op = "idle"
    /\ \E sku \in SkuInputs, manufacturer \in Manufacturers, material \in Materials,
          color_hex \in BasicColors :
          \E r \in {write_anycubic_basic(Conn(mem, fault), sku, manufacturer, material, color_hex)} :
             /\ op' = "write_anycubic_basic"
             /\ args' = [sku |-> sku, manufacturer |-> manufacturer, material |-> material,
                         color_hex |-> color_hex]
             /\ ret' = [raised |-> FALSE, value |-> r.results, sent |-> r.sent]
             /\ tx' = r.conn.tx
             /\ mem' = r.conn.mem
    /\ UNCHANGED <<prev, fault, ua, rows, win>>

ReadAnycubicFields ==
    /\ op \in {"idle", "write_anycubic_basic"}
    /\ \E r \in {read_anycubic_fields(Conn(mem, fault))} :
          /\ op' = "read_anycubic_fields"
          /\ args' = <<>>
          /\ ret' = [raised |-> FALSE, value |-> r.value]
          /\ tx' = r.conn.tx
          /\ mem' = r.conn.mem
    /\ prev' = ThisCall
    /\ UNCHANGED <<fault, ua, rows, win>>

WriteColorRgbaHex ==
    /\ op = "idle"
    /\ \E page \in ColorPages, color_hex \in ColorInputs :
          \E r \in {write_color_rgba_hex(Conn(mem, fault), page, color_hex)} :
             /\ op' = "write_color_rgba_hex"
             /\ args' = [page |-> page, color_hex |-> color_hex]
             /\ ret' = [raised |-> r.raised, value |-> r.value]
             /\ tx' = r.conn.tx
             /\ mem' = r.conn.mem
    /\ UNCHANGED <<prev, fault, ua, rows, win>>

ReadColorRgbaHex ==
    /\ op \in {"idle", "write_color_rgba_hex"}
    /\ \E page \in ColorPages :
          \E r \in {_read_color_rgba_hex(Conn(mem, fault), page)} :
             /\ op' = "_read_color_rgba_hex"
             /\ args' = [page |-> page]
             /\ ret' = [raised |-> FALSE, value |-> r.value]
             /\ tx' = r.conn.tx
             /\ mem' = r.conn.mem
    /\ prev' = ThisCall
    /\ UNCHANGED <<fault, ua, rows, win>>

NextCodec == WriteAnycubicBasic \/ ReadAnycubicFields \/ WriteColorRgbaHex \/ ReadColorRgbaHex

\* the field codec of pcsc.py: writes and read-backs on one tag
SpecCodec == InitCodec /\ [][NextCodec]_vars

----------------------------------------------------------------------------
(* Claims about the field codec on the tag *)

\* every exchange of the log was answered 90 00
AllAcknowledged(log) == \A k \in 1..Len(log) : log[k].rsp = Acknowledged

\* a string of ASCII characters without NUL
IsNulFreeAscii(s) == \A i \in 1..Len(s) : s[i] >= 1 /\ s[i] <= 127

\* '#' followed by exactly 6 or 8 hex digits
IsValidColor(c) ==
    /\ Len(c) \in {7, 9}
    /\ c[1] = 35
    /\ \A i \in 2..Len(c) : IsHexDigit(c[i])

\* the uppercase '#RRGGBBAA' of a valid colour, alpha FF when it has none
FullUpper(c) == PyUpper(c) \o (IF Len(c) = 7 THEN <<70, 70>> ELSE <<>>)

\* C5: read_anycubic_fields after a write_anycubic_basic whose page writes were
\* all acknowledged returns sku equal to the SKU written, for every NUL-free
\* ASCII SKU of 0..20 characters and any previous contents of the tag.
C5_SkuRoundTrip ==
    ( /\ op = "read_anycubic_fields"
      /\ prev.op = "write_anycubic_basic"
      /\ Len(prev.args.sku) <= 20
      /\ IsNulFreeAscii(prev.args.sku)
      /\ AllAcknowledged(prev.tx) )
    => ret.value.sku = prev.args.sku

\* the field (1 SKU, 2 manufacturer, 3 material, 4 color) the k-th exchange of a
\* write_anycubic_basic call belongs to
FieldOfWrite(k) ==
    IF k <= ret.sent[1] THEN 1
    ELSE IF k <= ret.sent[1] + ret.sent[2] THEN 2
    ELSE IF k <= ret.sent[1] + ret.sent[2] + ret.sent[3] THEN 3
    ELSE 4

\* C6: the SKU write APDUs of write_anycubic_basic address only pages
\* 0x05..0x09, and within one call no page is written by two different fields.
C6_SkuWritesStayInSpan ==
    op = "write_anycubic_basic" =>
        /\ \A k \in 1..ret.sent[1] :
              ApduPage(tx[k].apdu) >= \H05 /\ ApduPage(tx[k].apdu) <= \H09
        /\ \A j, k \in 1..Len(tx) :
              ApduPage(tx[j].apdu) = ApduPage(tx[k].apdu) => FieldOfWrite(j) = FieldOfWrite(k)

\* C8: _read_color_rgba_hex(page) after an acknowledged write_color_rgba_hex(page, c)
\* of a valid '#RRGGBB' or '#RRGGBBAA' returns the uppercase '#RRGGBBAA' with the
\* digits of c, and alpha FF when c has none.
C8_ColorPageRoundTrip ==
    ( /\ op = "_read_color_rgba_hex"
      /\ prev.op = "write_color_rgba_hex"
      /\ prev.args.page = args.page
      /\ IsValidColor(prev.args.color_hex)
      /\ Len(prev.tx) = 1 /\ AllAcknowledged(prev.tx)
      /\ AllAcknowledged(tx) )
    => ret.value = Some(FullUpper(prev.args.color_hex))

\* C8 witness: "#1acd00" written and acknowledged, then read back from the same
\* page as "#1ACD00FF".
C8_Witness ==
    /\ op = "_read_color_rgba_hex"
    /\ prev.op = "write_color_rgba_hex"
    /\ prev.args.page = args.page
    /\ prev.args.color_hex = <<35, 49, 97, 99, 100, 48, 48>>
    /\ Len(prev.tx) = 1 /\ AllAcknowledged(prev.tx)
    /\ Len(tx) = 1 /\ AllAcknowledged(tx)
    /\ ret.value = Some(<<35, 49, 65, 67, 68, 48, 48, 70, 70>>)

----------------------------------------------------------------------------
(* Scenarios of the page mappers (nfc_fields.py) and the colour encoders *)

\* a blank tag on which every exchange is acknowledged
InitFields ==
    /\ op = "idle" /\ args = <<>> /\ ret = <<>> /\ tx = <<>> /\ prev = <<>>
    /\ rows = <<>> /\ win = <<>>
    /\ mem = BlankTag /\ fault = EmptyDict /\ ua = detect_user_area

MapAsciiSpan ==
    /\ op = "idle"
    /\ \E span \in {P_SKU, P_MANUFACTURER, P_MATERIAL, PageSpan(\H05, 0)},
          text \in SkuInputs \cup Manufacturers \cup Materials,
          max_pages \in {NoMaxPages, 0, 1, 2, 8} :
          /\ op' = "map_ascii_span"
          /\ args' = [span |-> span, text |-> text, max_pages |-> max_pages]
          /\ ret' = [raised |-> FALSE, value |-> map_ascii_span(span, text, max_pages)]
    /\ UNCHANGED <<tx, prev, mem, fault, ua, rows, win>>

MapColorRgba ==
    /\ op = "idle"
    /\ \E span_color \in {P_COLOR, PageSpan(\H20, 0)}, hex_full \in ColorInputs :
          /\ op' = "map_color_rgba"
          /\ args' = [span_color |-> span_color, hex_full |-> hex_full]
          /\ ret' = map_color_rgba(span_color, hex_full)
    /\ UNCHANGED <<tx, prev, mem, fault, ua, rows, win>>

ToRgbaBytes ==
    /\ op = "idle"
    /\ \E hex_full \in ColorInputs :
          /\ op' = "to_rgba_bytes"
          /\ args' = [hex_full |-> hex_full]
          /\ ret' = to_rgba_bytes(hex_full)
    /\ UNCHANGED <<tx, prev, mem, fault, ua, rows, win>>

MapU16 ==
    /\ op = "idle"
    /\ \E span \in {P_DIAMETER_CENTI, P_WEIGHT_G, PageSpan(\H11, 0)},
          value \in {NoValue} \cup {Some(v) : v \in U16Inputs},
          byteorder \in {"little", "big"} :
          /\ op' = "map_u16"
          /\ args' = [span |-> span, value |-> value, byteorder |-> byteorder]
          /\ ret' = [raised |-> FALSE, value |-> map_u16(span, value, byteorder)]
    /\ UNCHANGED <<tx, prev, mem, fault, ua, rows, win>>

NextFields == MapAsciiSpan \/ MapColorRgba \/ ToRgbaBytes \/ WriteColorRgbaHex \/ MapU16

\* the page mappers of the editor, and the colour encoder of the tag next to them
SpecFields == InitFields /\ [][NextFields]_vars

----------------------------------------------------------------------------
(* Claims about the page mappers and the colour encoders *)

\* the byte budget of a map_ascii_span call
AsciiSpanBudget ==
    IF args.max_pages = NoMaxPages THEN args.span.pages * 4
    ELSE Min(args.span.pages * 4, args.max_pages * 4)

\* the text cut to the budget, one zero terminator if room remains, zero-padded
\* to whole pages, on consecutive pages from span.start
TerminatedSpanPages ==
    LET body == Slice(AsciiEncodeIgnore(args.text), 0, AsciiSpanBudget)
        z == IF Len(body) < AsciiSpanBudget THEN body \o <<0>> ELSE body
        padded == z \o Zeros((4 - (Len(z) % 4)) % 4)
    IN [p \in args.span.start..(args.span.start + (Len(padded) \div 4) - 1) |->
           SubSeq(padded, 4 * (p - args.span.start) + 1, 4 * (p - args.span.start) + 4)]

\* C7: map_ascii_span returns, on consecutive pages from span.start, the ASCII
\* bytes of the text cut to the byte budget, then a single zero terminator when
\* the cut text is shorter than the budget, the last page zero-padded.
C7_MapAsciiSpanTerminates ==
    (op = "map_ascii_span" /\ Len(args.text) > 0) =>
        /\ DOMAIN ret.value = DOMAIN TerminatedSpanPages
        /\ \A p \in DOMAIN ret.value : ret.value[p] = TerminatedSpanPages[p]

\* the 4 data bytes write_color_rgba_hex transmits for a colour
TransmittedColorBytes(c) ==
    LET data(w) == SubSeq(w.conn.tx[1].apdu, 6, 9)
    IN data(write_color_rgba_hex(Conn(BlankTag, EmptyDict), \H14, c))

\* C9: for a valid colour map_color_rgba stages on the span's page the 4 bytes
\* write_color_rgba_hex transmits for it ([A,B,G,R]), and _read_color_rgba_hex
\* of the staged page returns the uppercase '#RRGGBBAA' of the colour.
C9_MapColorStagesTagOrder ==
    (op = "map_color_rgba" /\ args.span_color.pages > 0 /\ IsValidColor(args.hex_full)) =>
        /\ ~ret.raised
        /\ DOMAIN ret.value = {args.span_color.start}
        /\ ret.value[args.span_color.start] = TransmittedColorBytes(args.hex_full)
        /\ _read_color_rgba_hex(Conn(ret.value, EmptyDict), args.span_color.start).value
              = Some(FullUpper(args.hex_full))

\* C10: for a string that is not '#' followed by exactly 6 or 8 hex digits,
\* write_color_rgba_hex returns False and transmits nothing, and map_color_rgba
\* and to_rgba_bytes do not raise and produce no 4 bytes other than 00 00 00 FF.
C10_InvalidColorsRejected ==
    CASE op = "write_color_rgba_hex" ->
            ~IsValidColor(args.color_hex) =>
                ~ret.raised /\ ret.value = FALSE /\ tx = <<>>
      [] op = "to_rgba_bytes" ->
            ~IsValidColor(args.hex_full) =>
                ~ret.raised /\ ret.value = <<\H00, \H00, \H00, \HFF>>
      [] op = "map_color_rgba" ->
            ~IsValidColor(args.hex_full) =>
                /\ ~ret.raised
                /\ \A p \in DOMAIN ret.value : ret.value[p] = <<\H00, \H00, \H00, \HFF>>
      [] OTHER -> TRUE

\* what _read_u16_at(page, 0) decodes from the page a map_u16 call staged
StagedU16 == _read_u16_at(Conn(ret.value, EmptyDict), args.span.start, 0).value

\* C11: map_u16 in the default little-endian order yields exactly one entry, page
\* span.start with bytes [v mod 256, (v div 256) mod 256, 00, 00], and reading
\* bytes 0..1 of that page as _read_u16_at(page, 0) does returns v mod 65536.
C11_MapU16LittleEndian ==
    (op = "map_u16" /\ args.byteorder = "little" /\ args.span.pages > 0 /\ ~args.value.none) =>
        /\ DOMAIN ret.value = {args.span.start}
        /\ ret.value[args.span.start] =
              <<args.value.value % 256, (args.value.value \div 256) % 256, \H00, \H00>>
        /\ ~StagedU16.none
        /\ StagedU16.value = args.value.value % 65536

\* C11 witness: 175 staged as AF 00 00 00 on the diameter page.
C11_Witness ==
    /\ op = "map_u16" /\ args.byteorder = "little"
    /\ args.span = P_DIAMETER_CENTI
    /\ ~args.value.none /\ args.value.value = 175
    /\ ret.value = (\H11 :> <<\HAF, \H00, \H00, \H00>>)

----------------------------------------------------------------------------
(* Claims about reading the fields back *)

\* the exchanges of the SKU read of read_anycubic_fields on the tag as it is
\* (a read leaves the tag's memory as it was)
SkuReads == _read_ascii_z(Conn(mem, fault), 5, 32).conn.tx

\* C12: read_anycubic_fields reads the SKU from pages 0x05..0x09 only: no SKU
\* read addresses a page beyond 0x09 and the decoded SKU has at most 20
\* characters, whatever the tag holds.
C12_SkuReadStaysInSpan ==
    op = "read_anycubic_fields" =>
        /\ SubSeq(tx, 2, 1 + Len(SkuReads)) = SkuReads
        /\ \A k \in 1..Len(SkuReads) :
              /\ IsReadApdu(SkuReads[k].apdu)
              /\ ApduPage(SkuReads[k].apdu) >= \H05 /\ ApduPage(SkuReads[k].apdu) <= \H09
        /\ Len(ret.value.sku) <= 20

\* the pages whose exchanges fail on this tag
FailedPages == DOMAIN fault \ {-1}

\* what read_anycubic_fields returns on the same memory when no read fails
FieldsWithoutFaults == read_anycubic_fields(Conn(mem, EmptyDict)).value

\* the pages a string field is read from when no read fails
StringFieldPages(start_page, max_len) ==
    LET pagesOf(log) == {ApduPage(log[k].apdu) : k \in 1..Len(log)}
    IN pagesOf(_read_string_page(Conn(mem, EmptyDict), start_page, max_len).conn.tx)

\* a string field is the empty string when one of its pages failed, and what it
\* is without faults otherwise
StringFieldAbsentOrSame(key, start_page, max_len) ==
    IF StringFieldPages(start_page, max_len) \cap FailedPages # {}
    THEN ret.value[key] = <<>>
    ELSE ret.value[key] = FieldsWithoutFaults[key]

\* a one-page field is None when its page failed, and what it is without faults
\* otherwise
PageFieldAbsentOrSame(key, page) ==
    IF page \in FailedPages
    THEN ret.value[key].none
    ELSE /\ ret.value[key].none = FieldsWithoutFaults[key].none
         /\ ret.value[key].value = FieldsWithoutFaults[key].value

\* C13: read_anycubic_fields returns a record without raising whatever reads
\* fail; a field one of whose pages failed to read is absent (None or the empty
\* string), never a partial value, and a field whose pages were all read has the
\* value it has when no read fails.
C13_FailedReadsLeaveFieldsAbsent ==
    op = "read_anycubic_fields" =>
        /\ ~ret.raised
        /\ StringFieldAbsentOrSame("sku", \H05, 32)
        /\ StringFieldAbsentOrSame("manufacturer", \H0A, 16)
        /\ StringFieldAbsentOrSame("material", \H0F, 16)
        /\ PageFieldAbsentOrSame("color_hex", \H14)
        /\ PageFieldAbsentOrSame("bed_min", \H1D)
        /\ PageFieldAbsentOrSame("bed_max", \H1D)
        /\ PageFieldAbsentOrSame("diameter_mm", \H1E)
        /\ PageFieldAbsentOrSame("length_m", \H1E)
        /\ PageFieldAbsentOrSame("weight_g", \H1F)
        /\ PageFieldAbsentOrSame("p20_raw", 20)
        /\ PageFieldAbsentOrSame("p40_raw", 40)
        /\ PageFieldAbsentOrSame("p41_raw", 41)
        /\ PageFieldAbsentOrSame("p42_raw", 42)

----------------------------------------------------------------------------
(* Scenarios of the NDEF helpers (pcsc.py) *)

\* the bytes the TLV buffers are made of: NULL, another TLV's tag (also a short
\* length), the NDEF tag, the Terminator, and the extended-length marker
TlvBytes == {\H00, \H01, \H03, \HFE, \HFF}

\* 03 04 <4 bytes> FE
ShortNdefExample == <<\H03, \H04, \HD1, \H01, \H00, \H54, \HFE>>

\* every buffer of up to MaxTlvLen of these bytes, and the example
TlvBuffers ==
    UNION {[1..n -> TlvBytes] : n \in 0..MaxTlvLen} \cup {ShortNdefExample}

InitNdef ==
    /\ op = "idle" /\ args = <<>> /\ ret = <<>> /\ tx = <<>> /\ prev = <<>>
    /\ rows = <<>> /\ win = <<>>
    /\ mem = BlankTag /\ fault = EmptyDict /\ ua = detect_user_area

FindNdefTlv ==
    /\ op = "idle"
    /\ \E buf \in TlvBuffers :
          /\ op' = "find_ndef_tlv"
          /\ args' = [mem |-> buf]
          /\ ret' = [raised |-> FALSE, value |-> find_ndef_tlv(buf)]
    /\ UNCHANGED <<tx, prev, mem, fault, ua, rows, win>>

NextNdef == FindNdefTlv

\* the TLV scan on byte buffers
SpecNdef == InitNdef /\ [][NextNdef]_vars

----------------------------------------------------------------------------
(* Claims about the TLV scan *)

\* the offset of the first byte at or after offset i that is not a NULL TLV, the
\* length of b when there is none
AfterNulls(b, i) ==
    IF \A k \in (i + 1)..Len(b) : b[k] = \H00 THEN Len(b)
    ELSE CHOOSE j \in i..(Len(b) - 1) : b[j + 1] # \H00 /\ \A k \in (i + 1)..j : b[k] = \H00

RECURSIVE FirstNdefTlv(_, _)
\* the first NDEF TLV met when walking b TLV by TLV from offset i (0-based):
\* "none" when the walk ends without one, "found" with its value offset, length
\* and total length, "cut" when b ends before that TLV is complete
FirstNdefTlv(b, i) ==
    LET none == [kind |-> "none", off |-> 0, len |-> 0, total |-> 0]
        cut == [kind |-> "cut", off |-> 0, len |-> 0, total |-> 0]
        hasLen == i + 2 <= Len(b)
        isExt == b[i + 2] = \HFF
        hasExt == i + 4 <= Len(b)
        hdr == IF isExt THEN 4 ELSE 2
        len == IF isExt THEN b[i + 3] * 256 + b[i + 4] ELSE b[i + 2]
    IN IF i >= Len(b) THEN none
       ELSE IF b[i + 1] = \H00 THEN FirstNdefTlv(b, AfterNulls(b, i))
       ELSE IF b[i + 1] = \HFE THEN none
       ELSE IF b[i + 1] = \H03
            THEN IF ~hasLen \/ (isExt /\ ~hasExt) \/ i + hdr + len > Len(b) THEN cut
                 ELSE [kind |-> "found", off |-> i + hdr, len |-> len, total |-> hdr + len]
            ELSE IF ~hasLen \/ (isExt /\ ~hasExt) THEN none
                 ELSE FirstNdefTlv(b, i + hdr + len)

\* C15: find_ndef_tlv returns the value offset, length and total length of the
\* first NDEF TLV met when walking the buffer TLV by TLV from offset 0 (NULL
\* bytes skipped singly, other TLVs skipped by their short or extended length,
\* nothing found after a Terminator), and NotFound when the walk meets none;
\* 03 04 <4 bytes> FE gives (2, 4, 6).
C15_FindsFirstNdefTlv ==
    op = "find_ndef_tlv" =>
        /\ FirstNdefTlv(args.mem, 0).kind = "none" => ret.value = NotFound
        /\ FirstNdefTlv(args.mem, 0).kind = "found" =>
              ret.value = Found(FirstNdefTlv(args.mem, 0).off, FirstNdefTlv(args.mem, 0).len,
                                Some(FirstNdefTlv(args.mem, 0).total))
        /\ args.mem = ShortNdefExample => ret.value = Found(2, 4, Some(6))
        /\ args.mem = <<\HFE>> => ret.value = NotFound

\* C15 witness: 01 01 03 03 01 00, where the first 0x03 is the value of another
\* TLV and the NDEF TLV after it is found at value offset 5.
C15_Witness ==
    /\ op = "find_ndef_tlv"
    /\ args.mem = <<\H01, \H01, \H03, \H03, \H01, \H00>>
    /\ ret.value = Found(5, 1, Some(3))

\* C16: for a buffer that ends before the NDEF TLV is complete (no length byte,
\* no two extended-length bytes after 03 FF, or fewer value bytes than the
\* declared length) find_ndef_tlv returns (None, None, None).
C16_TruncatedTlvIsNotFound ==
    (op = "find_ndef_tlv" /\ FirstNdefTlv(args.mem, 0).kind = "cut") =>
        ~ret.raised /\ ret.value = NotFound

----------------------------------------------------------------------------
(* Scenarios of read_ndef_tlv: the loop runs one iteration per step *)

\* read_ndef_tlv(conn, max_pages=0x30)
DefaultMaxPages == \H30

MaxPagesInputs == {0, 1, 3, 16, 17, 20, DefaultMaxPages}

\* a tag whose pages from 0x04 hold the given bytes, zero-padded to a page
TagFromBytes(bytes) ==
    [p \in 4..(3 + (Len(bytes) + 3) \div 4) |->
        [k \in 1..4 |-> IF 4 * (p - 4) + k <= Len(bytes) THEN bytes[4 * (p - 4) + k] ELSE 0]]

\* an NDEF TLV of 4 bytes, one of 70 bytes that ends in the second chunk of 16
\* pages, one with an extended length behind another TLV, and no TLV at all
NdefShortTag == TagFromBytes(ShortNdefExample)

NdefLongTag == TagFromBytes(<<\H03, 70>> \o [k \in 1..70 |-> \H40 + (k % 16)] \o <<\HFE>>)

NdefExtTag ==
    TagFromBytes(<<\H01, \H02, \HAA, \HBB, \H03, \HFF, \H00, \H50>>
                 \o [k \in 1..80 |-> \H60 + (k % 16)] \o <<\HFE>>)

TerminatedTag == TagFromBytes(<<\HFE>>)

NdefTags == {BlankTag, UsedTag, NdefShortTag, NdefLongTag, NdefExtTag, TerminatedTag}

InitTlvRead ==
    /\ op = "idle" /\ args = <<>> /\ ret = <<>> /\ tx = <<>> /\ prev = <<>>
    /\ rows = <<>> /\ win = <<>>
    /\ mem \in NdefTags /\ fault \in FaultMapsUpTo(1) /\ ua = detect_user_area

\* the call of read_ndef_tlv up to its while loop
ReadNdefTlvCall ==
    /\ op = "idle"
    /\ \E max_pages \in MaxPagesInputs :
          /\ op' = "read_ndef_tlv"
          /\ args' = [max_pages |-> max_pages]
          /\ ret' = read_ndef_tlv_enter
    /\ UNCHANGED <<tx, prev, mem, fault, ua, rows, win>>

\* one turn of the while loop, or the return after it
ReadNdefTlvStep ==
    /\ op = "read_ndef_tlv" /\ ~ret.done
    /\ \E r \in {read_ndef_tlv_step([Conn(mem, fault) EXCEPT !.tx = tx], ret, args.max_pages)} :
          /\ ret' = r.frame
          /\ tx' = r.conn.tx
          /\ mem' = r.conn.mem
    /\ UNCHANGED <<op, args, prev, fault, ua, rows, win>>

NextTlvRead == ReadNdefTlvCall \/ ReadNdefTlvStep

SpecTlvRead == InitTlvRead /\ [][NextTlvRead]_vars

\* the interpreter keeps running a call that has not returned
SpecTlvReadFair == SpecTlvRead /\ WF_vars(ReadNdefTlvStep)

----------------------------------------------------------------------------
(* Claims about read_ndef_tlv *)

RECURSIVE AccumulatedBytes(_, _)
\* the bytes the acknowledged page reads of a log answered, in order
AccumulatedBytes(log, k) ==
    IF k > Len(log) THEN <<>>
    ELSE (IF log[k].rsp = Acknowledged THEN PageAt(mem, ApduPage(log[k].apdu)) ELSE <<>>)
         \o AccumulatedBytes(log, k + 1)

\* every exchange is a READ BINARY of one page in [4, 4 + max_pages), and
\* there are at most max_pages of them
ReadsWithinPageBudget ==
    /\ Len(tx) <= args.max_pages
    /\ args.max_pages = DefaultMaxPages => Len(tx) <= 48
    /\ \A k \in 1..Len(tx) :
          /\ IsReadApdu(tx[k].apdu) /\ tx[k].apdu[3] = 0 /\ tx[k].apdu[5] = 4
          /\ ApduPage(tx[k].apdu) >= 4 /\ ApduPage(tx[k].apdu) < 4 + args.max_pages

\* the chunk read last began with a page that did not answer
LastChunkEmpty ==
    /\ Len(tx) > 0 /\ tx[Len(tx)].rsp # Acknowledged
    /\ ApduPage(tx[Len(tx)].apdu) = 4 + ret.pages_read

\* what read_ndef_tlv has returned, or not yet, against the TLV w the
\* accumulated bytes acc hold
ReturnsOnceComplete(acc, w) ==
    /\ (ret.done /\ w.kind = "found") => ret.value = Some(Slice(acc, w.off, w.off + w.len))
    /\ (ret.done /\ w.kind # "found") =>
          ret.value = None /\ (ret.pages_read >= args.max_pages \/ LastChunkEmpty)
    /\ ~ret.done => w.kind # "found"

ReturnsOnceCompleteOf(acc) == ReturnsOnceComplete(acc, FirstNdefTlv(acc, 0))

ReadNdefTlvSafe ==
    op = "read_ndef_tlv" =>
        ReadsWithinPageBudget /\ ReturnsOnceCompleteOf(AccumulatedBytes(tx, 1))

\* a turn of the loop reads at most 16 pages and, unless it returns, advances
\* pages_read
ReadNdefTlvTurn ==
    (op = "read_ndef_tlv" /\ op' = "read_ndef_tlv") =>
        /\ Len(tx') - Len(tx) <= 16
        /\ ~ret'.done => ret'.pages_read > ret.pages_read

\* C17: read_ndef_tlv always terminates; it reads only pages in
\* [4, 4 + max_pages), at most 16 per chunk and at most max_pages in total (48
\* by default), returns the NDEF value bytes as soon as the accumulated bytes
\* hold the whole declared NDEF length, and returns None when the page budget
\* is exhausted or a chunk yields no bytes.
C17_ReadNdefTlvTerminates ==
    /\ []ReadNdefTlvSafe
    /\ [][ReadNdefTlvTurn]_vars
    /\ (op = "read_ndef_tlv") ~> (op = "read_ndef_tlv" /\ ret.done)

\* C17 witness: the 70-byte NDEF value is returned by the second chunk, after
\* more than 16 page reads.
C17_Witness ==
    /\ op = "read_ndef_tlv" /\ ret.done /\ ~ret.value.none
    /\ Len(ret.value.value) = 70 /\ Len(tx) > 16 /\ args.max_pages = DefaultMaxPages

----------------------------------------------------------------------------
(* Scenarios of decode_ndef_records *)

\* record headers (0x11: short, TNF 1; 0x12: short, TNF 2; 0x01: long, TNF 1;
\* 0x00: long, TNF 0; 0x80: MB, long, TNF 0), lengths, the types T and U, Text
\* status bytes and URI prefix codes
NdefBytes == {\H00, \H01, \H02, \H11, \H54, \H55, \H80}

\* Text "A" in "en", the URI http://www.A, a long record of TNF 2, a long Text
\* record, a UTF-16 Text with a byte order mark, two records in a row
NdefExamples ==
    { <<\HD1, \H01, \H04, \H54, \H02, \H65, \H6E, \H41>>,
      <<\HD1, \H01, \H02, \H55, \H01, \H41>>,
      <<\H02, \H01, \H00, \H00, \H00, \H02, \H58, \H41, \H42>>,
      <<\HC1, \H01, \H00, \H00, \H00, \H02, \H54, \H00, \H41>>,
      <<\HD1, \H01, \H05, \H54, \H80, \HFF, \HFE, \H41, \H00>>,
      <<\H91, \H01, \H01, \H58, \H41, \H52, \H01, \H01, \H55, \H00>> }

NdefMessages == UNION {[1..n -> NdefBytes] : n \in 0..MaxNdefLen} \cup NdefExamples

DecodeNdefRecords ==
    /\ op = "idle"
    /\ \E ndef \in NdefMessages :
          /\ op' = "decode_ndef_records"
          /\ args' = [ndef |-> ndef]
          /\ ret' = decode_ndef_records(ndef)
    /\ UNCHANGED <<tx, prev, mem, fault, ua, rows, win>>

NextRecords == DecodeNdefRecords

\* the record decoder on byte strings
SpecRecords == InitNdef /\ [][NextRecords]_vars

----------------------------------------------------------------------------
(* Claims about decode_ndef_records *)

RECURSIVE NdefRecordsFrom(_, _)
\* the records of an NDEF message from offset i, by their headers (flags and
\* TNF, type length, payload length in 1 byte when SR is set and in 4 bytes
\* otherwise, no ID field): end says whether the message ends with a record
\* ("ok"), inside a header ("short"), or inside the type or payload a complete
\* header declares ("cut"); recs are the complete records before that
NdefRecordsFrom(b, i) ==
    LET sr == (b[i + 1] \div 16) % 2 = 1
        hlen == IF sr THEN 3 ELSE 6
        tl == b[i + 2]
        pl == IF sr THEN b[i + 3]
              ELSE b[i + 3] * 16777216 + b[i + 4] * 65536 + b[i + 5] * 256 + b[i + 6]
        rec == [tnf |-> b[i + 1] % 8,
                type |-> SubSeq(b, i + hlen + 1, i + hlen + tl),
                payload |-> SubSeq(b, i + hlen + tl + 1, i + hlen + tl + pl)]
        with(rest) == [end |-> rest.end, recs |-> <<rec>> \o rest.recs]
    IN IF i >= Len(b) THEN [end |-> "ok", recs |-> <<>>]
       ELSE IF i + hlen > Len(b) THEN [end |-> "short", recs |-> <<>>]
       ELSE IF i + hlen + tl + pl > Len(b) THEN [end |-> "cut", recs |-> <<>>]
       ELSE with(NdefRecordsFrom(b, i + hlen + tl + pl))

\* a well-known (TNF 1) record of type T or U
IsTextOrUriRecord(r) == r.tnf = 1 /\ r.type \in {<<\H54>>, <<\H55>>}

GenericPlaceholders(w) ==
    w.end = "ok" =>
        \A k \in 1..Len(w.recs) :
            ~IsTextOrUriRecord(w.recs[k]) =>
                /\ k <= Len(ret.value)
                /\ ret.value[k] = TnfEntry(w.recs[k].tnf, w.recs[k].type,
                                           Len(w.recs[k].payload))

\* C18: every record of a message that is not a well-known Text or URI record,
\* whatever its TNF (TNF 1 with another type included), is rendered as
\* 'TNF=<n>, type=<raw>, <len> bytes'.
C18_OtherRecordsUseGenericPlaceholder ==
    op = "decode_ndef_records" => GenericPlaceholders(NdefRecordsFrom(args.ndef, 0))

TruncatedRecordFallsBack(w) ==
    w.end = "cut" =>
        /\ Len(ret.value) = Len(w.recs) + 1
        /\ ret.value[Len(ret.value)] = RawNdefEntry(Len(args.ndef))

\* C19: a record whose header declares a type or payload length beyond the end
\* of the buffer is not decoded from the bytes that are there; the output ends
\* with 'Raw NDEF (<n> bytes)', n the length of the whole message.
C19_TruncatedRecordFallsBack ==
    op = "decode_ndef_records" => TruncatedRecordFallsBack(NdefRecordsFrom(args.ndef, 0))

\* no header of a first record is there: the message is empty or ends inside it
NoRecordHeader(b) ==
    Len(b) < 3 \/ ((b[1] \div 16) % 2 = 0 /\ Len(b) < 6)

----------------------------------------------------------------------------
(* Grouping of staged pages into runs (main_window.py) *)

RECURSIVE SortedItems(_, _)
\* sorted((int(p), bytes(v[:4]).ljust(4, b"\x00")) for p, v in pages.items()),
\* the items of the keys in S
SortedItems(pages, S) ==
    IF S = {} THEN <<>>
    ELSE LET p == CHOOSE q \in S : \A r \in S : q <= r
         IN <<<<p, Slice(pages[p], 0, 4) \o Zeros(4 - Len(Slice(pages[p], 0, 4)))>>>>
            \o SortedItems(pages, S \ {p})

RECURSIVE _group_pages_split(_, _, _, _, _, _)
\* the for loop of _group_pages with every page starting a new run
_group_pages_split(items, k, start, buf, last, out) ==
    IF k > Len(items) THEN Append(out, <<start, buf>>)
    ELSE _group_pages_split(items, k + 1, items[k][1], items[k][2], items[k][1],
                            Append(out, <<start, buf>>))

RECURSIVE _group_pages_loop(_, _, _, _, _, _)
\* the for loop of _group_pages over items[k..], and the final append
_group_pages_loop(items, k, start, buf, last, out) ==
    IF k > Len(items) THEN Append(out, <<start, buf>>)
    ELSE IF items[k][1] = last + 1
         THEN _group_pages_loop(items, k + 1, start, buf \o items[k][2], items[k][1], out)
         ELSE _group_pages_loop(items, k + 1, items[k][1], items[k][2], items[k][1],
                                Append(out, <<start, buf>>))

\* MainWindow._group_pages(pages): the list of (start_page, bytes)
_group_pages(pages) ==
    LET grouped(items) ==
            IF items = <<>> THEN <<>>
            ELSE _group_pages_loop(items, 2, items[1][1], items[1][2], items[1][1], <<>>)
    IN grouped(SortedItems(pages, DOMAIN pages))

----------------------------------------------------------------------------
(* Scenarios of _group_pages *)

\* the pages a mapping may hold, and the values of a page: three of 4 bytes,
\* one shorter and one longer
GroupedPages == {\H04, \H05, \H06, \H08, \H09, \H0B}

PageValues ==
    { <<\HB0, \HB0, \HB0, \HB0>>, <<\HB1, \HB1, \HB1, \HB1>>, <<\HB2, 0, 0, \HB2>>,
      <<\HC3, \HC3>>, <<\HD4, \HD4, \HD4, \HD4, \HD5>> }

PageMappings == UNION {[S -> PageValues] : S \in SUBSET GroupedPages}

GroupPages ==
    /\ op = "idle"
    /\ \E pages \in PageMappings :
          /\ op' = "_group_pages"
          /\ args' = [pages |-> pages]
          /\ ret' = [raised |-> FALSE, value |-> _group_pages(pages)]
    /\ UNCHANGED <<tx, prev, mem, fault, ua, rows, win>>

NextGroup == GroupPages

SpecGroup == InitNdef /\ [][NextGroup]_vars

----------------------------------------------------------------------------
(* Claims about _group_pages *)

\* the 4 bytes a page of the mapping stands for
FourBytes(v) == [k \in 1..4 |-> IF k <= Len(v) THEN v[k] ELSE 0]

RECURSIVE PagesConcatenated(_, _, _)
\* the 4-byte values of n pages from page p, in page order
PagesConcatenated(pages, p, n) ==
    IF n <= 0 THEN <<>> ELSE FourBytes(pages[p]) \o PagesConcatenated(pages, p + 1, n - 1)

\* the pages of a run
RunPages(run) == run[1]..(run[1] + Len(run[2]) \div 4 - 1)

\* C21: the runs of _group_pages come in ascending start-page order; each
\* covers a maximal set of consecutive pages of the mapping (the page before
\* its start and the page after its end are not in the mapping), its bytes are
\* the 4-byte values of its pages in page order, and every page of the mapping
\* is in exactly one run; {5, 6, 8} gives [(5, b0 + b1), (8, b2)].
C21_GroupPagesMaximalRuns ==
    op = "_group_pages" =>
        /\ ~ret.raised
        /\ \A k \in 1..Len(ret.value) :
              /\ Len(ret.value[k][2]) % 4 = 0 /\ Len(ret.value[k][2]) >= 4
              /\ RunPages(ret.value[k]) \subseteq DOMAIN args.pages
              /\ ret.value[k][1] - 1 \notin DOMAIN args.pages
              /\ ret.value[k][1] + Len(ret.value[k][2]) \div 4 \notin DOMAIN args.pages
              /\ ret.value[k][2] = PagesConcatenated(args.pages, ret.value[k][1],
                                                      Len(ret.value[k][2]) \div 4)
              /\ k > 1 => ret.value[k][1] > ret.value[k - 1][1]
        /\ \A p \in DOMAIN args.pages :
              Cardinality({k \in 1..Len(ret.value) : p \in RunPages(ret.value[k])}) = 1
        /\ \A b0, b1, b2 \in PageValues :
              (Len(b0) = 4 /\ Len(b1) = 4 /\ Len(b2) = 4
               /\ args.pages = (5 :> b0) @@ (6 :> b1) @@ (8 :> b2))
              => ret.value = << <<5, b0 \o b1>>, <<8, b2>> >>

\* C21 witness: pages 4, 5, 6, 8, 9 and 11 all staged group into three runs.
C21_Witness ==
    /\ op = "_group_pages" /\ DOMAIN args.pages = GroupedPages
    /\ Len(ret.value) = 3 /\ ret.value[1][1] = 4 /\ Len(ret.value[1][2]) = 12
    /\ ret.value[2][1] = 8 /\ ret.value[3][1] = 11

----------------------------------------------------------------------------
(* The page editor (page_editor_dock.py) *)

\* _to_hex2(b)
_to_hex2(b) == Format02X(b % 256)

\* _bytes_to_ascii_4(b): the printable ASCII characters of the first 4 bytes
_bytes_to_ascii_4(b) ==
    SelectSeq(AsciiDecodeIgnore(Slice(b, 0, 4)), LAMBDA ch : 32 <= ch /\ ch <= 126)

\* _ascii_to_4_bytes(s)
_ascii_to_4_bytes(s) ==
    LET padded(b) == b \o Zeros(4 - Len(b))
    IN padded(Slice(AsciiEncodeIgnore(s), 0, 4))

\* _hexstr_to_rgba_bytes(text): 4 bytes, or None
_hexstr_to_rgba_bytes(text) ==
    LET parsed(t) ==
            IF Len(t) \notin {6, 8} THEN None
            ELSE IF PyIntHex(SubSeq(t, 1, 2)).ok /\ PyIntHex(SubSeq(t, 3, 4)).ok
                    /\ PyIntHex(SubSeq(t, 5, 6)).ok
                    /\ (Len(t) = 8 => PyIntHex(SubSeq(t, 7, 8)).ok)
                 THEN Some(<<PyIntHex(SubSeq(t, 1, 2)).value, PyIntHex(SubSeq(t, 3, 4)).value,
                             PyIntHex(SubSeq(t, 5, 6)).value,
                             IF Len(t) = 8 THEN PyIntHex(SubSeq(t, 7, 8)).value ELSE \HFF>>)
                 ELSE None
        unhashed(t) == IF t # <<>> /\ t[1] = 35 THEN Tail(t) ELSE t
    IN IF text = <<>> THEN None
       ELSE parsed(PyUpper(SelectSeq(unhashed(PyStrip(text)), LAMBDA ch : ch # 32)))

\* _rgba_bytes_to_hex(b4): '#RRGGBBAA'
_rgba_bytes_to_hex(b4) ==
    LET shown(b) == <<35>> \o Format02X(b[1]) \o Format02X(b[2]) \o Format02X(b[3])
                    \o Format02X(b[4])
        four(b) == Slice(b, 0, 4) \o Zeros(4 - Len(Slice(b, 0, 4)))
    IN shown(four(IF b4 = <<>> THEN <<0, 0, 0, \HFF>> ELSE b4))

\* a _Row after __init__: empty editors, Apply not checked
NewRow == [edB |-> <<(<<>>), (<<>>), (<<>>), (<<>>)>>, edAscii |-> <<>>, chkApply |-> FALSE]

\* the byte one hex editor of _Row.get_bytes4 stands for
HexEditorByte(text) ==
    LET stripped == PyStrip(text)
        t == IF stripped = <<>> THEN <<48, 48>> ELSE stripped
        digits == IF Len(t) >= 2 /\ t[1] = 48 /\ t[2] \in {88, 120}
                  THEN SubSeq(t, 3, Len(t)) ELSE t
    IN IF PyIntHex(digits).ok THEN PyIntHex(digits).value ELSE 0

\* _Row.get_bytes4(), and _Row.value()
get_bytes4(row) == [k \in 1..4 |-> HexEditorByte(row.edB[k])]

\* _Row.set_value(b4, mark_changed); color_pretty says whether this is the
\* colour row
set_value(row, color_pretty, b4, mark_changed) ==
    LET shown(b) ==
            [edB |-> [k \in 1..4 |-> _to_hex2(b[k])],
             edAscii |-> IF color_pretty THEN _rgba_bytes_to_hex(b) ELSE _bytes_to_ascii_4(b),
             chkApply |-> IF mark_changed THEN TRUE ELSE row.chkApply]
        four(b) == Slice(b, 0, 4) \o Zeros(4 - Len(Slice(b, 0, 4)))
    IN shown(four(IF b4 = <<>> THEN Zeros(4) ELSE b4))

\* _Row.clear() that leaves the Apply mark as it is
clear_keepmark(row) ==
    [edB |-> [k \in 1..4 |-> <<>>], edAscii |-> <<>>, chkApply |-> row.chkApply]

\* _Row.clear()
clear(row) == [edB |-> [k \in 1..4 |-> <<>>], edAscii |-> <<>>, chkApply |-> FALSE]

\* _Row._on_hex_edited, after the user has typed text into hex editor k
_on_hex_edited(row, color_pretty, k, text) ==
    LET typed == [row EXCEPT !.edB[k] = text]
    IN [typed EXCEPT !.edAscii = IF color_pretty THEN _rgba_bytes_to_hex(get_bytes4(typed))
                                 ELSE _bytes_to_ascii_4(get_bytes4(typed)),
                     !.chkApply = TRUE]

\* _Row._on_ascii_edited(s), after the user has typed s into the ASCII editor
_on_ascii_edited(row, color_pretty, s) ==
    LET b4 == IF color_pretty /\ ~_hexstr_to_rgba_bytes(s).none
              THEN _hexstr_to_rgba_bytes(s).value
              ELSE _ascii_to_4_bytes(s)
    IN [edB |-> [k \in 1..4 |-> _to_hex2(b4[k])], edAscii |-> s, chkApply |-> TRUE]

\* PageEditorDock(parent, max_page=63, color_page=0x20), as MainWindow makes it
EditorMaxPage == 63

EditorColorPage == \H20

\* self._rows after __init__
NewRows == [p \in 0..EditorMaxPage |-> NewRow]

\* the keys of pages_to_bytes: a start page, or a PageSpan
IntKey(page) == [page |-> page]

is_pagespan(key) == "pages" \in DOMAIN key

\* the 4 bytes of the chunk of data at offset off
PaddedChunk(data, off) == Slice(data, off, off + 4) \o Zeros(4 - Len(Slice(data, off, off + 4)))

\* row.set_value(chunk, mark_changed) on the row of page p, if there is one
StageRow(rs, p, chunk, mark_changed) ==
    IF p \in DOMAIN rs
    THEN [rs EXCEPT ![p] = set_value(rs[p], p = EditorColorPage, chunk, mark_changed)]
    ELSE rs

RECURSIVE stage_span_unbounded(_, _, _, _, _)
\* the loop of stage_pages over a span that goes on behind the span's last page
stage_span_unbounded(rs, pages, k, data, mark_changed) ==
    IF 4 * (k - 1) >= Len(data) THEN rs
    ELSE stage_span_unbounded(StageRow(rs, pages[1] + k - 1, PaddedChunk(data, 4 * (k - 1)),
                                       mark_changed),
                              pages, k + 1, data, mark_changed)

RECURSIVE stage_span_loop(_, _, _, _, _)
\* for p in pages: ... of stage_pages, from the k-th page of the span
stage_span_loop(rs, pages, k, data, mark_changed) ==
    IF k > Len(pages) \/ 4 * (k - 1) >= Len(data) THEN rs
    ELSE stage_span_loop(StageRow(rs, pages[k], PaddedChunk(data, 4 * (k - 1)), mark_changed),
                         pages, k + 1, data, mark_changed)

RECURSIVE stage_start_loop(_, _, _, _, _)
\* while off < len(data): ... of stage_pages
stage_start_loop(rs, p, off, data, mark_changed) ==
    IF off >= Len(data) THEN rs
    ELSE stage_start_loop(StageRow(rs, p, PaddedChunk(data, off), mark_changed),
                          p + 1, off + 4, data, mark_changed)

RECURSIVE stage_pages_items(_, _, _, _)
\* for key, payload in pages_to_bytes.items(): ..., items the (key, payload)
\* pairs in the order of the dict
stage_pages_items(rs, items, k, mark_changed) ==
    IF k > Len(items) THEN rs
    ELSE stage_pages_items(
             IF is_pagespan(items[k][1])
             THEN stage_span_loop(rs, iter_pages(items[k][1]), 1, items[k][2], mark_changed)
             ELSE stage_start_loop(rs, items[k][1].page, 0, items[k][2], mark_changed),
             items, k + 1, mark_changed)

\* PageEditorDock.stage_pages(pages_to_bytes, mark_changed)
stage_pages(rs, items, mark_changed) == stage_pages_items(rs, items, 1, mark_changed)

\* PageEditorDock.clear_all_rows()
clear_all_rows(rs) == [p \in DOMAIN rs |-> clear(rs[p])]

\* gather_selected_pages that collects every row that holds a value
gather_selected_pages_all(rs) ==
    [p \in {q \in DOMAIN rs : rs[q] # NewRow} |-> get_bytes4(rs[p])]

\* PageEditorDock.gather_selected_pages(): page -> 4 bytes
gather_selected_pages(rs) ==
    [p \in {q \in DOMAIN rs : rs[q].chkApply} |-> get_bytes4(rs[p])]

----------------------------------------------------------------------------
(* Scenarios of the page editor *)

\* b"ABCDEF" and b"1"
SixBytes == <<65, 66, 67, 68, 69, 70>>

OneByte == <<49>>

\* pages_to_bytes: one key (a start page, the last page of the editor, the
\* colour span of 1 page, the SKU span of 5 pages) with no, 1 or 6 bytes, and a
\* mapping of two keys
StageKeys == {IntKey(\H05), IntKey(\H3F), P_COLOR, P_SKU}

StagePayloads == {<<>>, OneByte, SixBytes}

StageInputs ==
    {<< <<key, payload>> >> : key \in StageKeys, payload \in StagePayloads}
    \cup {<< <<IntKey(\H21), SixBytes>>, <<P_COLOR, OneByte>> >>}

\* what the user types: "0x" and "a5" into a hex editor, "Hi", "#1acd00" and
\* "zz" into an ASCII editor
HexEdits == {[page |-> \H05, k |-> 1, text |-> <<48, 120>>],
             [page |-> \H05, k |-> 1, text |-> <<97, 53>>]}

AsciiEdits == {[page |-> \H06, text |-> <<72, 105>>],
               [page |-> EditorColorPage, text |-> <<35, 49, 97, 99, 100, 48, 48>>],
               [page |-> EditorColorPage, text |-> <<122, 122>>]}

ToggledPages == {\H05, \H3F}

InitEditor ==
    /\ op = "idle" /\ args = <<>> /\ ret = <<>> /\ tx = <<>> /\ prev = 0
    /\ mem = BlankTag /\ fault = EmptyDict /\ ua = detect_user_area
    /\ rows = NewRows /\ win = <<>>

StagePages ==
    /\ prev < MaxEditorOps
    /\ \E items \in StageInputs, mark_changed \in BOOLEAN :
          /\ op' = "stage_pages"
          /\ args' = [pages_to_bytes |-> items, mark_changed |-> mark_changed]
          /\ rows' = stage_pages(rows, items, mark_changed)
    /\ ret' = [raised |-> FALSE, value |-> <<>>]
    /\ prev' = prev + 1
    /\ UNCHANGED <<tx, mem, fault, ua, win>>

\* the user types into a hex editor of a row
EditHex ==
    /\ prev < MaxEditorOps
    /\ \E e \in HexEdits :
          /\ op' = "_on_hex_edited"
          /\ args' = e
          /\ rows' = [rows EXCEPT ![e.page] =
                          _on_hex_edited(@, e.page = EditorColorPage, e.k, e.text)]
    /\ ret' = [raised |-> FALSE, value |-> <<>>]
    /\ prev' = prev + 1
    /\ UNCHANGED <<tx, mem, fault, ua, win>>

\* the user types into the ASCII editor of a row
EditAscii ==
    /\ prev < MaxEditorOps
    /\ \E e \in AsciiEdits :
          /\ op' = "_on_ascii_edited"
          /\ args' = e
          /\ rows' = [rows EXCEPT ![e.page] =
                          _on_ascii_edited(@, e.page = EditorColorPage, e.text)]
    /\ ret' = [raised |-> FALSE, value |-> <<>>]
    /\ prev' = prev + 1
    /\ UNCHANGED <<tx, mem, fault, ua, win>>

\* the user clicks the Apply box of a row
ToggleApply ==
    /\ prev < MaxEditorOps
    /\ \E page \in ToggledPages :
          /\ op' = "chkApply.click"
          /\ args' = [page |-> page]
          /\ rows' = [rows EXCEPT ![page].chkApply = ~@]
    /\ ret' = [raised |-> FALSE, value |-> <<>>]
    /\ prev' = prev + 1
    /\ UNCHANGED <<tx, mem, fault, ua, win>>

ClearAllRows ==
    /\ prev < MaxEditorOps
    /\ op' = "clear_all_rows"
    /\ args' = <<>>
    /\ rows' = clear_all_rows(rows)
    /\ ret' = [raised |-> FALSE, value |-> <<>>]
    /\ prev' = prev + 1
    /\ UNCHANGED <<tx, mem, fault, ua, win>>

GatherSelectedPages ==
    /\ op' = "gather_selected_pages"
    /\ args' = <<>>
    /\ ret' = [raised |-> FALSE, value |-> gather_selected_pages(rows)]
    /\ UNCHANGED <<tx, prev, mem, fault, ua, rows, win>>

NextEditor ==
    StagePages \/ EditHex \/ EditAscii \/ ToggleApply \/ ClearAllRows \/ GatherSelectedPages

SpecEditor == InitEditor /\ [][NextEditor]_vars

----------------------------------------------------------------------------
(* Claims on the page editor *)

\* the pages whose Apply box is checked
MarkedPages(rs) == {p \in DOMAIN rs : rs[p].chkApply}

GatherReturnsMarked ==
    op = "gather_selected_pages" =>
        /\ DOMAIN ret.value = MarkedPages(rows)
        /\ \A p \in DOMAIN ret.value :
              Len(ret.value[p]) = 4 /\ ret.value[p] = get_bytes4(rows[p])

UnmarkedStagingAddsNoMark ==
    (op' = "stage_pages" /\ ~args'.mark_changed) => MarkedPages(rows') = MarkedPages(rows)

\* C22: gather_selected_pages returns exactly the pages whose Apply box is
\* checked, each with the 4 bytes its hex editors stand for, and stage_pages
\* with mark_changed=False checks no Apply box, so that a page that was only
\* staged is not among the gathered pages.
C22_GatherReturnsMarkedPages == []GatherReturnsMarked /\ [][UnmarkedStagingAddsNoMark]_vars

\* pages were gathered while page 5 held staged bytes without a mark and
\* another page was marked
C22_Witness ==
    /\ op = "gather_selected_pages"
    /\ get_bytes4(rows[\H05]) = <<65, 66, 67, 68>> /\ ~rows[\H05].chkApply
    /\ \H05 \notin DOMAIN ret.value
    /\ ret.value # <<>>

\* C23: after clear_all_rows every row holds 00 00 00 00 and no Apply box is
\* checked, so that gather_selected_pages returns an empty mapping.
C23_ClearAllRowsClears ==
    op = "clear_all_rows" =>
        /\ \A p \in DOMAIN rows : get_bytes4(rows[p]) = Zeros(4) /\ ~rows[p].chkApply
        /\ gather_selected_pages(rows) = <<>>

\* the rows were cleared after two calls or edits
C23_Witness == op = "clear_all_rows" /\ prev = MaxEditorOps /\ prev > 2

\* the first page of a key, and the number of 4-byte chunks stage_pages takes
\* from a payload under that key
KeyStart(key) == IF is_pagespan(key) THEN key.start ELSE key.page

ChunksOf(key, data) ==
    IF is_pagespan(key) THEN Min((Len(data) + 3) \div 4, key.pages) ELSE (Len(data) + 3) \div 4

\* bytes 4i .. 4i+3 of data, zeros behind its end
ChunkAt(data, i) == [k \in 1..4 |-> IF 4 * i + k <= Len(data) THEN data[4 * i + k] ELSE 0]

\* the rows rs2 after staging data under key on the rows rs: the staged pages
\* hold the chunks, every other row has the value and the mark it had (a row
\* that is the same as before has them)
StagedAs(rs, rs2, key, data, staged) ==
    /\ DOMAIN rs2 = DOMAIN rs
    /\ \A p \in staged \cap DOMAIN rs :
          get_bytes4(rs2[p]) = ChunkAt(data, p - KeyStart(key))
    /\ \A p \in DOMAIN rs \ staged :
          rs2[p] # rs[p] => /\ get_bytes4(rs2[p]) = get_bytes4(rs[p])
                            /\ rs2[p].chkApply = rs[p].chkApply

StageOneKeyEffect ==
    (op' = "stage_pages" /\ Len(args'.pages_to_bytes) = 1) =>
        \E key \in {args'.pages_to_bytes[1][1]}, data \in {args'.pages_to_bytes[1][2]} :
            StagedAs(rows, rows', key, data,
                     {KeyStart(key) + i : i \in 0..(ChunksOf(key, data) - 1)})

\* C24: stage_pages with one key and n bytes sets the first ceil(n/4) pages
\* from the start (of a span at most span.pages pages, and no page above
\* max_page) to the 4-byte chunks of the payload, the last one padded with
\* zeros, and leaves the value and the mark of every other row as they were.
C24_StagePagesFrame == [][StageOneKeyEffect]_vars

\* 6 bytes were staged under the colour span of 1 page while page 0x21 held
\* other bytes
C24_Witness ==
    /\ op = "stage_pages"
    /\ args.pages_to_bytes = << <<P_COLOR, SixBytes>> >>
    /\ get_bytes4(rows[\H20]) = <<65, 66, 67, 68>>
    /\ get_bytes4(rows[\H21]) # Zeros(4)

----------------------------------------------------------------------------
(* The catalog lookup by SKU (utils/sku.py, main_window.py) *)

IsAlnum(ch) == (48 <= ch /\ ch <= 57) \/ (65 <= ch /\ ch <= 90) \/ (97 <= ch /\ ch <= 122)

\* sku.split("-", 1)[0]
HeadBeforeDash(sku) ==
    IF \E i \in 1..Len(sku) : sku[i] = 45
    THEN SubSeq(sku, 1, (CHOOSE i \in 1..Len(sku) :
                            sku[i] = 45 /\ \A j \in 1..(i - 1) : sku[j] # 45) - 1)
    ELSE sku

\* sku_base(sku)
sku_base(sku) == IF sku = <<>> THEN <<>> ELSE SelectSeq(HeadBeforeDash(sku), IsAlnum)

\* k.startswith(prefix)
StartsWith(k, prefix) == Len(k) >= Len(prefix) /\ SubSeq(k, 1, Len(prefix)) = prefix

\* the (None, None) of _find_ini_record_for_base, and a (key, record) it returns
NoRecord == [found |-> FALSE, key |-> <<>>, rec |-> <<>>]

FoundRecord(item) == [found |-> TRUE, key |-> item.sku, rec |-> item]

\* MainWindow._find_ini_record_for_base(base); by_sku the items of self.by_sku
\* in the order of the dict, combo_color the index and the text of the colour
\* combo box
_find_ini_record_for_base(by_sku, combo_color, base) ==
    LET cur_color == IF combo_color.currentIndex > 0 THEN PyStrip(combo_color.currentText)
                     ELSE <<>>
        SameColor(item) == PyStrip(item.color) = cur_color
        chosen(candidates) ==
            IF candidates = <<>> THEN NoRecord
            ELSE IF cur_color # <<>> /\ \E i \in 1..Len(candidates) : SameColor(candidates[i])
                 THEN FoundRecord(candidates[CHOOSE i \in 1..Len(candidates) :
                                      /\ SameColor(candidates[i])
                                      /\ \A j \in 1..(i - 1) : ~SameColor(candidates[j])])
                 ELSE FoundRecord(candidates[1])
    IN IF base = <<>> THEN NoRecord
       ELSE chosen(SelectSeq(by_sku, LAMBDA item : StartsWith(item.sku, base \o <<45>>)))

----------------------------------------------------------------------------
(* Scenarios of the catalog lookup *)

\* FilamentRecord(sku, filament, color, color_hex)
FilamentRecord(sku, filament, color, color_hex) ==
    [sku |-> sku, filament |-> filament, color |-> color, color_hex |-> color_hex]

\* "PLA", "Red", "Blue", "#FF0000FF", "#0000FFFF"
NamePLA == <<80, 76, 65>>

ColorRed == <<82, 101, 100>>

ColorBlue == <<66, 108, 117, 101>>

HexRed == <<35, 70, 70, 48, 48, 48, 48, 70, 70>>

HexBlue == <<35, 48, 48, 48, 48, 70, 70, 70, 70>>

\* the lines AHPLA-101;PLA;Red, AHPLA-102;PLA;Blue, AHPLA-103;PLA;Red and
\* AHPLAS-101;PLA;Blue of a catalog
CatalogEntries ==
    {FilamentRecord(<<65, 72, 80, 76, 65, 45, 49, 48, 49>>, NamePLA, ColorRed, HexRed),
     FilamentRecord(<<65, 72, 80, 76, 65, 45, 49, 48, 50>>, NamePLA, ColorBlue, HexBlue),
     FilamentRecord(<<65, 72, 80, 76, 65, 45, 49, 48, 51>>, NamePLA, ColorRed, HexRed),
     FilamentRecord(<<65, 72, 80, 76, 65, 83, 45, 49, 48, 49>>, NamePLA, ColorBlue, HexBlue)}

\* self.by_sku: the entries of a catalog file in the order of the file, no SKU
\* twice
Catalogs ==
    {c \in UNION {[1..n -> CatalogEntries] : n \in 0..MaxCatalogLen} :
        \A i, j \in 1..Len(c) : i # j => c[i].sku # c[j].sku}

\* the colour combo box: the placeholder, or a colour
ColorSelections ==
    {[currentIndex |-> 0, currentText |-> <<>>],
     [currentIndex |-> 1, currentText |-> ColorRed],
     [currentIndex |-> 2, currentText |-> ColorBlue]}

\* SKUs read from a tag: "AHPLA-101", "AHPLA-102", "AHPLA-104", "AH PLA-102",
\* "AHPLA", "AHPLAS-101", "AHABS-101" and ""
SkusRead ==
    {<<65, 72, 80, 76, 65, 45, 49, 48, 49>>, <<65, 72, 80, 76, 65, 45, 49, 48, 50>>, <<65, 72, 80, 76, 65, 45, 49, 48, 52>>,
     <<65, 72, 32, 80, 76, 65, 45, 49, 48, 50>>, <<65, 72, 80, 76, 65>>, <<65, 72, 80, 76, 65, 83, 45, 49, 48, 49>>,
     <<65, 72, 65, 66, 83, 45, 49, 48, 49>>, <<>>}

InitCatalog ==
    /\ op = "idle" /\ args = <<>> /\ ret = <<>> /\ tx = <<>> /\ prev = <<>>
    /\ mem = BlankTag /\ fault = EmptyDict /\ ua = detect_user_area
    /\ rows = <<>>
    /\ win \in {[by_sku |-> c, combo_color |-> sel] : c \in Catalogs, sel \in ColorSelections}

\* the lookup of _select_by_sku(sku_read)
FindIniRecordForBase ==
    /\ op = "idle"
    /\ \E sku_read \in SkusRead :
          /\ op' = "_find_ini_record_for_base"
          /\ args' = [sku_read |-> sku_read, base |-> sku_base(sku_read)]
          /\ ret' = [raised |-> FALSE,
                     value |-> _find_ini_record_for_base(win.by_sku, win.combo_color,
                                                         sku_base(sku_read))]
    /\ UNCHANGED <<tx, prev, mem, fault, ua, rows, win>>

NextCatalog == FindIniRecordForBase

SpecCatalog == InitCatalog /\ [][NextCatalog]_vars

----------------------------------------------------------------------------
(* Claims on the catalog lookup *)

\* the entries of the catalog with this very SKU
ExactMatches(by_sku, sku) == SelectSeq(by_sku, LAMBDA item : item.sku = sku)

\* the entries whose SKU starts with base + "-"
BaseMatches(by_sku, base) ==
    SelectSeq(by_sku, LAMBDA item : StartsWith(item.sku, base \o <<45>>))

\* of the base matches the first of the selected colour, else the first
PreferredBaseMatch(matches, combo_color) ==
    IF combo_color.currentIndex > 0
       /\ \E i \in 1..Len(matches) : matches[i].color = combo_color.currentText
    THEN matches[CHOOSE i \in 1..Len(matches) :
                    /\ matches[i].color = combo_color.currentText
                    /\ \A j \in 1..(i - 1) : matches[j].color # combo_color.currentText]
    ELSE matches[1]

\* C25: the lookup for a SKU read from a tag returns the entry with that very
\* SKU if the catalog has one; if it has none, the entry among those whose SKU
\* starts with base + "-" that has the selected colour, else the first of them.
C25_LookupPrefersFullSku ==
    op = "_find_ini_record_for_base" =>
        IF ExactMatches(win.by_sku, args.sku_read) # <<>>
        THEN ret.value.found /\ ret.value.key = args.sku_read
        ELSE IF BaseMatches(win.by_sku, args.base) # <<>> /\ args.base # <<>>
             THEN /\ ret.value.found
                  /\ ret.value.rec = PreferredBaseMatch(BaseMatches(win.by_sku, args.base),
                                                        win.combo_color)
             ELSE ~ret.value.found

----------------------------------------------------------------------------
(* Claim on the buffer of read_ndef_tlv *)

\* byte k (from 0) of the tag memory that starts at page 4
UserMemoryByte(k) == PageAt(mem, 4 + (k \div 4))[(k % 4) + 1]

\* C26: the buffer read_ndef_tlv has accumulated is a prefix of the tag memory
\* from page 4 on: its byte k is byte k of that memory, also after a page read
\* inside a chunk has failed and a later chunk was read.
C26_CollectedIsMemoryPrefix ==
    op = "read_ndef_tlv" =>
        \A k \in 0..(Len(ret.collected) - 1) : ret.collected[k + 1] = UserMemoryByte(k)

----------------------------------------------------------------------------
(* Claim on the flags of write_anycubic_basic *)

\* the first page of the fields of write_anycubic_basic, in the order SKU,
\* manufacturer, material, colour
BasicFieldStart == <<\H05, \H0A, \H0F, \H14>>

\* the pages a field takes: those of the text, cut to max_len, and its
\* terminator; the colour takes 1
BasicFieldPages(f) ==
    LET pagesOf(text, max_len) == (Min(Len(AsciiEncodeIgnore(text)), max_len) + 1 + 3) \div 4
    IN CASE f = 1 -> pagesOf(args.sku, 32)
         [] f = 2 -> pagesOf(args.manufacturer, 8)
         [] f = 3 -> pagesOf(args.material, 16)
         [] f = 4 -> 1

BasicFieldFlag(f) ==
    CASE f = 1 -> ret.value.p05_sku
      [] f = 2 -> ret.value.p0A_manu
      [] f = 3 -> ret.value.p0F_mat
      [] f = 4 -> ret.value.p14_color

\* the exchanges before those of field f
BasicFieldOffset(f) ==
    CASE f = 1 -> 0
      [] f = 2 -> ret.sent[1]
      [] f = 3 -> ret.sent[1] + ret.sent[2]
      [] f = 4 -> ret.sent[1] + ret.sent[2] + ret.sent[3]

\* the i-th exchange of field f
BasicFieldExchange(f, i) == tx[BasicFieldOffset(f) + i]

\* C27: write_anycubic_basic sets the flag of a field only if every page of
\* the field was transmitted and answered 90 00; the pages of a field are
\* written in ascending order up to the first failed one, the fields in the
\* order SKU, manufacturer, material, colour, and after a write that raised no
\* later field is written and the flags from that field on are False.
C27_BasicFlagsMeanAcknowledged ==
    op = "write_anycubic_basic" =>
        /\ Len(tx) = ret.sent[1] + ret.sent[2] + ret.sent[3] + ret.sent[4]
        /\ \A f \in 1..4 :
              /\ ret.sent[f] <= BasicFieldPages(f)
              /\ \A i \in 1..ret.sent[f] :
                    /\ IsWriteApdu(BasicFieldExchange(f, i).apdu)
                    /\ ApduPage(BasicFieldExchange(f, i).apdu) = BasicFieldStart[f] + i - 1
                    /\ i < ret.sent[f] => BasicFieldExchange(f, i).rsp = Acknowledged
                    /\ BasicFieldExchange(f, i).rsp.exc =>
                          \A g \in f..4 : ~BasicFieldFlag(g) /\ (g > f => ret.sent[g] = 0)
              /\ BasicFieldFlag(f) =>
                    /\ ret.sent[f] = BasicFieldPages(f)
                    /\ \A i \in 1..ret.sent[f] : BasicFieldExchange(f, i).rsp = Acknowledged

\* the SKU was written and acknowledged, the write of the manufacturer raised,
\* and neither material nor colour was written
C27_Witness ==
    /\ op = "write_anycubic_basic"
    /\ ret.value.p05_sku /\ ret.sent[1] > 1
    /\ ret.sent[2] = 1 /\ tx[Len(tx)].rsp.exc /\ ApduPage(tx[Len(tx)].apdu) = \H0A
    /\ ret.sent[3] = 0 /\ ret.sent[4] = 0
    /\ ret.value = [p05_sku |-> TRUE, p0A_manu |-> FALSE, p0F_mat |-> FALSE,
                    p14_color |-> FALSE]

----------------------------------------------------------------------------
(* The main window: reader status, presence, and the handlers that open a
   connection (main_window.py, presence.py) *)

\* CardPresenceObserver.update(observable, (added, removed)): the values of
\* presenceChanged it emits, in order
update(added, removed) ==
    (IF added # <<>> THEN <<TRUE>> ELSE <<>>) \o (IF removed # <<>> THEN <<FALSE>> ELSE <<>>)

\* a connection of connect_first_reader(): not yet connected, or no connection
\* at all
NoConnection == [obtained |-> FALSE, connected |-> FALSE, failed |-> FALSE, disconnects |-> 0]

NewConnection == [obtained |-> TRUE, connected |-> FALSE, failed |-> FALSE, disconnects |-> 0]

\* MainWindow.__init__: no reader, no card, the black icon, no handler running
NewWindow ==
    [reader_available |-> FALSE, card_present |-> FALSE, _icon_state |-> "black",
     pending |-> <<>>, handler |-> "none", pc |-> "idle", conn |-> NoConnection]

\* set_icon_state(key); self.icons holds the three pixmaps
set_icon_state(w, key) == [w EXCEPT !._icon_state = key]

\* refresh_reader_status(); readers is bool(list_readers())
refresh_reader_status(w, readers) ==
    IF ~readers
    THEN set_icon_state([w EXCEPT !.reader_available = FALSE, !.card_present = FALSE], "black")
    ELSE set_icon_state([w EXCEPT !.reader_available = TRUE],
                        IF w.card_present THEN "green" ELSE "red")

\* on_card_presence_changed(present)
on_card_presence_changed(w, present) ==
    IF ~w.reader_available
    THEN set_icon_state([w EXCEPT !.card_present = present], "black")
    ELSE set_icon_state([w EXCEPT !.card_present = present],
                        IF present THEN "green" ELSE "red")

\* a handler returns: the GUI thread is free again
Returned(w) == [w EXCEPT !.pc = "idle"]

\* conn = connect_first_reader() of on_read and on_write, up to the try;
\* readers says whether list_readers() finds one
ConnectFirstReaderOrBlack(w, readers) ==
    IF ~readers
    THEN Returned(set_icon_state([w EXCEPT !.reader_available = FALSE], "black"))
    ELSE [w EXCEPT !.conn = NewConnection, !.pc = "connect"]

\* conn = connect_first_reader() of the editor handlers, up to the try
ConnectFirstReaderOrReturn(w, readers) ==
    IF ~readers THEN Returned(w) ELSE [w EXCEPT !.conn = NewConnection, !.pc = "connect"]

\* on_read() up to the try: the window after it
on_read_enter(w, readers, readers2) ==
    LET refreshed(r) ==
            IF ~r.reader_available THEN Returned(r) ELSE ConnectFirstReaderOrBlack(r, readers2)
    IN refreshed(refresh_reader_status([w EXCEPT !.handler = "on_read", !.conn = NoConnection],
                                       readers))

\* on_write() up to the try; selected says whether a filament and a colour
\* with its data are selected
on_write_enter(w, readers, selected, readers2) ==
    LET refreshed(r) ==
            IF ~r.reader_available THEN Returned(r)
            ELSE IF ~r.card_present THEN Returned(r)
            ELSE IF ~selected THEN Returned(r)
            ELSE ConnectFirstReaderOrBlack(r, readers2)
    IN refreshed(refresh_reader_status([w EXCEPT !.handler = "on_write", !.conn = NoConnection],
                                       readers))

\* _on_editor_write(payload) up to the try
_on_editor_write_enter(w, pages, readers) ==
    LET entered == [w EXCEPT !.handler = "_on_editor_write", !.conn = NoConnection]
    IN IF ~(w.reader_available /\ w.card_present) THEN Returned(entered)
       ELSE IF pages = EmptyDict THEN Returned(entered)
       ELSE ConnectFirstReaderOrReturn(entered, readers)

\* _on_editor_delete_user_area() up to the question
_on_editor_delete_user_area_enter(w) ==
    LET entered == [w EXCEPT !.handler = "_on_editor_delete_user_area", !.conn = NoConnection]
    IN IF ~(w.reader_available /\ w.card_present) THEN Returned(entered)
       ELSE [entered EXCEPT !.pc = "confirm"]

\* _on_editor_delete_user_area() from the answer to the try
_on_editor_delete_user_area_answer(w, yes, readers) ==
    IF ~yes THEN Returned(w) ELSE ConnectFirstReaderOrReturn(w, readers)

\* conn.connect() of a handler whose failure returns past the finally clause
handler_connect_leak(w, outcome) ==
    IF outcome = "ok" THEN [w EXCEPT !.conn.connected = TRUE, !.pc = "body"]
    ELSE Returned([w EXCEPT !.conn.failed = TRUE])

\* conn.connect() of a handler and what its except clauses do; outcome is
\* "ok", "NoCardException" or "error"
handler_connect(w, outcome) ==
    IF outcome = "ok" THEN [w EXCEPT !.conn.connected = TRUE, !.pc = "body"]
    ELSE LET failed == [w EXCEPT !.conn.failed = TRUE, !.pc = "finally"]
         IN IF outcome = "NoCardException" /\ w.handler = "on_read"
            THEN IF w.reader_available THEN set_icon_state(failed, "red") ELSE failed
            ELSE IF outcome = "NoCardException" /\ w.handler = "on_write"
            THEN set_icon_state(failed, "red")
            ELSE failed

\* the finally clause of a handler: conn.disconnect() is called, whatever it
\* does, and the handler returns
handler_finally(w) == Returned([w EXCEPT !.conn.disconnects = @ + 1])

\* the reads of on_read: read_uid and read_anycubic_fields (read_atr asks the
\* connection, not the tag)
on_read_reads(conn) == read_anycubic_fields(read_uid(conn).conn)

RECURSIVE StagedItems(_, _)
\* staged.items(), the pages in S in the order they were put in (ascending)
StagedItems(staged, S) ==
    IF S = {} THEN <<>>
    ELSE LET p == CHOOSE q \in S : \A r \in S : q <= r
         IN << <<IntKey(p), staged[p]>> >> \o StagedItems(staged, S \ {p})

\* the prefill of on_read: the rows of the editor after it; a colour that does
\* not parse ends it before anything is staged
on_read_prefill(rs, info) ==
    LET sku == PyStrip(info["sku"])
        mat == PyStrip(info["material"])
        raw_color == IF info["color_hex"].none THEN <<>> ELSE PyStrip(info["color_hex"].value)
        rgba == IF Len(raw_color) = 7 THEN PyUpper(raw_color) \o <<70, 70>>
                ELSE PyUpper(raw_color)
        manufacturer == IF info["manufacturer"] = <<>> THEN <<65, 67>> ELSE info["manufacturer"]
        color == IF rgba = <<>> THEN [raised |-> FALSE, value |-> EmptyDict]
                 ELSE map_color_rgba(P_COLOR, rgba)
        staged(c) == c.value @@ map_ascii_span(P_MATERIAL, mat, NoMaxPages)
                     @@ map_ascii_span(P_MANUFACTURER, manufacturer, 1)
                     @@ map_ascii_span(P_SKU, sku, NoMaxPages)
        put(d) == stage_pages(rs, StagedItems(d, DOMAIN d), FALSE)
    IN IF color.raised THEN rs ELSE put(staged(color))

RECURSIVE _on_editor_write_loop(_, _, _, _)
\* for start, data in self._group_pages(pages): write_raw_pages(conn, ...)
_on_editor_write_loop(conn, d, groups, k) ==
    IF k > Len(groups) THEN conn
    ELSE _on_editor_write_loop(write_raw_pages(conn, d, groups[k][1], groups[k][2], TRUE).conn,
                               d, groups, k + 1)

----------------------------------------------------------------------------
(* Scenarios of the main window: the monitor thread emits, the GUI thread runs
   one handler at a time, step by step; while a question box is open it
   delivers timer ticks and presence signals *)

\* the tag of the window scenarios fails on no page, or on page 5 with an
\* exception
WindowFaults == {EmptyDict, (\H05 :> [exc |-> TRUE, sw1 |-> 0, sw2 |-> 0])}

\* the selection on_write writes: "AHHSCG-101", "PLA+", "#800080FF"
WriteSelection ==
    [sku |-> <<65, 72, 72, 83, 67, 71, 45, 49, 48, 49>>, material |-> <<80, 76, 65, 43>>,
     color_hex |-> <<35, 56, 48, 48, 48, 56, 48, 70, 70>>]

\* payload["pages"] of _on_editor_write: nothing, or pages 5, 6 and 8
EditorPayloads ==
    {EmptyDict,
     (\H05 :> <<65, 66, 67, 68>>) @@ (\H06 :> <<69, 70, 71, 72>>) @@ (\H08 :> <<73, 74, 75, 76>>)}

\* (added, removed) of a monitor callback: lists of cards, not both empty
MonitorActions ==
    {[added |-> a, removed |-> r] : a, r \in {<<>>, <<"card">>}}
    \ {[added |-> <<>>, removed |-> <<>>]}

ConnectOutcomes == {"ok", "NoCardException", "error"}

\* where the GUI thread takes events from its queue: between handlers, and
\* inside a question box
GuiFree == {"idle", "confirm", "ask"}

InitWindow ==
    /\ op = "idle" /\ args = <<>> /\ ret = <<>> /\ tx = <<>> /\ prev = <<>>
    /\ mem = UsedTag /\ fault \in WindowFaults /\ ua = detect_user_area
    /\ rows = NewRows /\ win = NewWindow

\* the monitor thread calls CardPresenceObserver.update; the signals wait in
\* the queue of the GUI thread
MonitorUpdate ==
    /\ \E actions \in MonitorActions :
          /\ Len(win.pending) + Len(update(actions.added, actions.removed)) <= MaxPending
          /\ win' = [win EXCEPT !.pending = @ \o update(actions.added, actions.removed)]
    /\ UNCHANGED <<op, args, ret, tx, prev, mem, fault, ua, rows>>

\* the GUI thread delivers the oldest presenceChanged signal
DeliverPresence ==
    /\ win.pc \in GuiFree /\ win.pending # <<>>
    /\ win' = on_card_presence_changed([win EXCEPT !.pending = Tail(@)], Head(win.pending))
    /\ UNCHANGED <<op, args, ret, tx, prev, mem, fault, ua, rows>>

\* reader_timer fires
TimerTick ==
    /\ win.pc \in GuiFree
    /\ \E readers \in BOOLEAN : win' = refresh_reader_status(win, readers)
    /\ UNCHANGED <<op, args, ret, tx, prev, mem, fault, ua, rows>>

ClickRead ==
    /\ win.pc = "idle"
    /\ \E readers, readers2 \in BOOLEAN : win' = on_read_enter(win, readers, readers2)
    /\ op' = "on_read" /\ args' = <<>> /\ ret' = <<>> /\ tx' = <<>>
    /\ UNCHANGED <<prev, mem, fault, ua, rows>>

ClickWrite ==
    /\ win.pc = "idle"
    /\ \E readers, selected, readers2 \in BOOLEAN :
          win' = on_write_enter(win, readers, selected, readers2)
    /\ op' = "on_write" /\ args' = WriteSelection /\ ret' = <<>> /\ tx' = <<>>
    /\ UNCHANGED <<prev, mem, fault, ua, rows>>

EditorWrite ==
    /\ win.pc = "idle"
    /\ \E pages \in EditorPayloads, readers \in BOOLEAN :
          /\ win' = _on_editor_write_enter(win, pages, readers)
          /\ args' = [pages |-> pages]
    /\ op' = "_on_editor_write" /\ ret' = <<>> /\ tx' = <<>>
    /\ UNCHANGED <<prev, mem, fault, ua, rows>>

EditorDelete ==
    /\ win.pc = "idle"
    /\ win' = _on_editor_delete_user_area_enter(win)
    /\ op' = "_on_editor_delete_user_area" /\ args' = <<>> /\ ret' = <<>> /\ tx' = <<>>
    /\ UNCHANGED <<prev, mem, fault, ua, rows>>

\* the user answers "Clear entire USER AREA?"
EditorDeleteAnswer ==
    /\ win.pc = "confirm"
    /\ \E yes, readers \in BOOLEAN : win' = _on_editor_delete_user_area_answer(win, yes, readers)
    /\ UNCHANGED <<op, args, ret, tx, prev, mem, fault, ua, rows>>

HandlerConnect ==
    /\ win.pc = "connect"
    /\ \E outcome \in ConnectOutcomes : win' = handler_connect(win, outcome)
    /\ UNCHANGED <<op, args, ret, tx, prev, mem, fault, ua, rows>>

\* the reads of on_read; what follows them asks the user (a box about the
\* catalog), raises, or goes on to the prefill
ReadBody ==
    /\ win.pc = "body" /\ win.handler = "on_read"
    /\ \E r \in {on_read_reads(Conn(mem, fault))}, next \in {"ask", "raise", "prefill"} :
          /\ tx' = r.conn.tx
          /\ mem' = r.conn.mem
          /\ ret' = [raised |-> next = "raise", value |-> r.value]
          /\ win' = [win EXCEPT !.pc = IF next = "ask" THEN "ask" ELSE "finally"]
          /\ rows' = IF next = "prefill" THEN on_read_prefill(rows, r.value) ELSE rows
    /\ UNCHANGED <<op, args, prev, fault, ua>>

\* the user answers the box of on_read; the rest of the try raises or prefills
ReadAnswer ==
    /\ win.pc = "ask"
    /\ \E raises \in BOOLEAN :
          /\ ret' = [ret EXCEPT !.raised = raises]
          /\ rows' = IF raises THEN rows ELSE on_read_prefill(rows, ret.value)
    /\ win' = [win EXCEPT !.pc = "finally"]
    /\ UNCHANGED <<op, args, tx, prev, mem, fault, ua>>

WriteBody ==
    /\ win.pc = "body" /\ win.handler = "on_write"
    /\ \E r \in {write_anycubic_basic(Conn(mem, fault), args.sku, <<65, 67>>, args.material,
                                       args.color_hex)} :
          /\ tx' = r.conn.tx
          /\ mem' = r.conn.mem
          /\ ret' = [raised |-> FALSE, value |-> r.results]
    /\ win' = [win EXCEPT !.pc = "finally"]
    /\ UNCHANGED <<op, args, prev, fault, ua, rows>>

EditorWriteBody ==
    /\ win.pc = "body" /\ win.handler = "_on_editor_write"
    /\ \E c \in {_on_editor_write_loop(Conn(mem, fault), ua, _group_pages(args.pages), 1)} :
          /\ tx' = c.tx
          /\ mem' = c.mem
    /\ win' = [win EXCEPT !.pc = "finally"]
    /\ UNCHANGED <<op, args, ret, prev, fault, ua, rows>>

EditorDeleteBody ==
    /\ win.pc = "body" /\ win.handler = "_on_editor_delete_user_area"
    /\ \E r \in {clear_user_area(Conn(mem, fault), ua)} :
          /\ tx' = r.conn.tx
          /\ mem' = r.conn.mem
          /\ ret' = [raised |-> FALSE, value |-> r.result]
    /\ win' = [win EXCEPT !.pc = "finally"]
    /\ UNCHANGED <<op, args, prev, fault, ua, rows>>

HandlerFinally ==
    /\ win.pc = "finally"
    /\ win' = handler_finally(win)
    /\ UNCHANGED <<op, args, ret, tx, prev, mem, fault, ua, rows>>

\* the steps of a handler that has a connection
HandlerStep ==
    HandlerConnect \/ ReadBody \/ ReadAnswer \/ WriteBody \/ EditorWriteBody
    \/ EditorDeleteBody \/ HandlerFinally

NextWindow ==
    MonitorUpdate \/ DeliverPresence \/ TimerTick \/ ClickRead \/ ClickWrite
    \/ EditorWrite \/ EditorDelete \/ EditorDeleteAnswer \/ HandlerStep

SpecWindow == InitWindow /\ [][NextWindow]_vars

----------------------------------------------------------------------------
(* Claims on the main window *)

\* a connection whose connect() failed has carried no APDU
ConnectFailureSendsNothing == win.conn.failed => tx = <<>>

\* a handler that had a connection has called disconnect() when it is back
ReturnedAfterDisconnect ==
    (win.pc = "idle" /\ win.conn.obtained) => win.conn.disconnects >= 1

\* the step in which a handler with a connection returns calls disconnect()
ReturnsThroughFinally ==
    (win.conn.obtained /\ win.pc # "idle" /\ win'.pc = "idle") =>
        win'.conn.disconnects = win.conn.disconnects + 1

\* C28: in on_read, on_write, _on_editor_write and _on_editor_delete_user_area
\* a connection whose connect() failed carries no APDU, and every handler that
\* obtained a connection calls disconnect() on it before it returns, whether
\* connect() succeeded, found no card or failed.
C28_HandlersDisconnect ==
    /\ []ConnectFailureSendsNothing
    /\ []ReturnedAfterDisconnect
    /\ [][ReturnsThroughFinally]_vars

\* _on_editor_write is back after connect() failed: nothing was sent and
\* disconnect() was called once
C28_Witness ==
    /\ win.handler = "_on_editor_write" /\ win.pc = "idle"
    /\ win.conn.obtained /\ win.conn.failed /\ ~win.conn.connected
    /\ tx = <<>> /\ win.conn.disconnects = 1

\* C29: whenever no handler is running the icon agrees with the stored
\* status: black iff no reader is available, green iff a reader is available
\* and a card present, red iff a reader is available and no card present.
C29_IconAgreesWithStatus ==
    win.pc = "idle" =>
        /\ win._icon_state = "black" <=> ~win.reader_available
        /\ win._icon_state = "green" <=> (win.reader_available /\ win.card_present)
        /\ win._icon_state = "red" <=> (win.reader_available /\ ~win.card_present)

\* the signals a monitor callback has put into the queue in this step
EmittedNow ==
    IF Len(win'.pending) > Len(win.pending)
    THEN SubSeq(win'.pending, Len(win.pending) + 1, Len(win'.pending))
    ELSE <<>>

\* C30: a monitor callback in which a card was added (it emits True) emits
\* True last, also when it reports a removed card as well.
C30_AddedCardEmitsTrueLast ==
    [][(\E k \in 1..Len(EmittedNow) : EmittedNow[k]) => EmittedNow[Len(EmittedNow)]]_vars

====
